---- MODULE Spec2Model ----
(***************************************************************************)
(* Password-based authenticated encryption envelope of vctool:            *)
(* certificate_encrypt, certificate_decrypt and                           *)
(* crypt_cipher_mac_init_from_password, run by a caller that encrypts a   *)
(* private certificate and then decrypts an envelope.                     *)
(*                                                                         *)
(* The vccrypt primitives are modelled as ideal functions: the KDF is     *)
(* injective in (password, salt, rounds), the MAC tag is injective in     *)
(* (key, data), and byte i of the stream cipher's output is the keystream *)
(* byte of (key, iv, i) xor the plaintext byte.  Every collaborator call  *)
(* that returns a status may fail.                                        *)
(***************************************************************************)
EXTENDS Integers, Sequences, FiniteSets, TLC

(* ---------------------------------------------------------------- bounds *)
\* the suite's stream cipher key size, IV size and MAC size, in bytes
KeySize == 2
IvSize == 1
MacSize == 2
\* the longest plaintext certificate
MaxPlain == 2
\* the number of bits of a size_t of the model
SizeBits == 16

(* ------------------------------------------------------------- constants *)
ENCRYPTED_CERT_MAGIC_SIZE == 3
SizeofUint32 == 4

VCTOOL_STATUS_SUCCESS == "VCTOOL_STATUS_SUCCESS"
\* vccrypt's success status has the same value (0) as vctool's: the code
\* compares the one against the other (certificate_encrypt.c:107).
VCCRYPT_STATUS_SUCCESS == VCTOOL_STATUS_SUCCESS
VCTOOL_ERROR_CERTIFICATE_NOT_MINIMUM_SIZE == "VCTOOL_ERROR_CERTIFICATE_NOT_MINIMUM_SIZE"
VCTOOL_ERROR_CERTIFICATE_VERIFICATION == "VCTOOL_ERROR_CERTIFICATE_VERIFICATION"

(* ------------------------------------------------------------------ bytes *)
\* A byte is [kind, id, v]:
\*   "lit"    the value v;
\*   "ct"     keystream byte id = <<key, iv, i>> xor v;
\*   "tag"    byte id[3] of the tag of id = <<key, data, j>>, xor v;
\*   "junk"   the result of decrypting with another keystream;
\*   "uninit" memory that was allocated and never written.
Lit(v) == [kind |-> "lit", id |-> <<>>, v |-> v]
Uninit == [kind |-> "uninit", id |-> <<>>, v |-> 0]
Junk == [kind |-> "junk", id |-> <<>>, v |-> 0]
UninitBuffer(n) == [i \in 1..n |-> Uninit]

Pow2(k) == 2 ^ k
Bit(v, k) == (v \div Pow2(k)) % 2
\* one bit of one byte flipped
FlipBit(b, k) ==
    [b EXCEPT !.v = IF Bit(@, k) = 1 THEN @ - Pow2(k) ELSE @ + Pow2(k)]
FlipAt(buf, pos, k) == [buf EXCEPT ![pos] = FlipBit(@, k)]

SubBuf(buf, first, n) == [i \in 1..n |-> buf[first + i]]

\* the difference of two size_t values: unsigned, it wraps around
SizeSub(a, b) == (a - b) % Pow2(SizeBits)

ENCRYPTED_CERT_MAGIC_STRING == <<Lit(69), Lit(78), Lit(67)>>

\* An unsigned int (uint32_t) is kept as its two 16-bit halves, so that
\* every value a 4-byte field can hold is representable.
U32(n) == [hi |-> (n \div 65536) % 65536, lo |-> n % 65536]
\* faulty variant: the rounds copied in little-endian host order, no htonl
HtonlNoSwap(r) ==
    << Lit(r.lo % 256), Lit(r.lo \div 256), Lit(r.hi % 256), Lit(r.hi \div 256) >>
\* htonl followed by memcpy: the four bytes, most significant first
Htonl(r) ==
    << Lit(r.hi \div 256), Lit(r.hi % 256), Lit(r.lo \div 256), Lit(r.lo % 256) >>
\* faulty variant: the rounds read in little-endian host order, no ntohl
NtohlNoSwap(bs) ==
    [hi |-> bs[4].v * 256 + bs[3].v, lo |-> bs[2].v * 256 + bs[1].v]
\* memcpy followed by ntohl
Ntohl(bs) ==
    [hi |-> bs[1].v * 256 + bs[2].v, lo |-> bs[3].v * 256 + bs[4].v]

\* crypto_memcmp: non-zero exactly when the two ranges differ
crypto_memcmp(a, b) == IF a = b THEN 0 ELSE 1

(* ----------------------------------------------------- vccrypt primitives *)
NoKey == [pw |-> <<>>, salt |-> <<>>, rounds |-> U32(0)]
\* vccrypt_key_derivation_derive_key
DeriveKey(pw, s, r) == [pw |-> pw, salt |-> s, rounds |-> r]

NoMac == [key |-> NoKey, data |-> <<>>]
\* vccrypt_suite_mac_init, vccrypt_mac_digest, vccrypt_mac_finalize
MacInit(key) == [key |-> key, data |-> <<>>]
MacDigest(m, bytes) == [m EXCEPT !.data = @ \o bytes]
MacFinalize(m) ==
    [j \in 1..MacSize |-> [kind |-> "tag", id |-> <<m.key, m.data, j>>, v |-> 0]]

NoCipher == [key |-> NoKey, iv |-> <<>>, pos |-> 0]
\* vccrypt_suite_stream_init
StreamInit(key) == [key |-> key, iv |-> <<>>, pos |-> 0]
\* vccrypt_stream_start_encryption: the IV is the cipher's framing
StartEncryptionOutput(ivbytes) == ivbytes
\* vccrypt_stream_encrypt: one output byte per input byte
StreamEncryptByte(c, i, b) ==
    IF b.kind = "lit"
        THEN [kind |-> "ct", id |-> <<c.key, c.iv, c.pos + i>>, v |-> b.v]
        ELSE Junk
StreamEncrypt(c, input) ==
    [i \in 1..Len(input) |-> StreamEncryptByte(c, i, input[i])]
\* vccrypt_stream_decrypt
StreamDecryptByte(c, i, b) ==
    IF b.kind = "ct" /\ b.id = <<c.key, c.iv, c.pos + i>>
        THEN Lit(b.v)
        ELSE Junk
StreamDecrypt(c, input) ==
    [i \in 1..Len(input) |-> StreamDecryptByte(c, i, input[i])]

(* ------------------------------------------------------------ input sets *)
PlainBytes == {Lit(104), Lit(105)}
Plaintexts == UNION {[1..n -> PlainBytes] : n \in 0..MaxPlain}
Passwords == {<<112>>, <<112, 119>>}
RoundsValues == {U32(1), U32(258)}
\* what vccrypt_prng_read may put into a buffer of n bytes
PrngSeeds == {17, 200}
PrngRead(seed, n) == [i \in 1..n |-> Lit((seed + i) % 256)]

(* ------------------------------------------------------------------ state *)
VARIABLES
    pc,             \* the next step of the running call, or the caller's position
    fn,             \* the function that is running: "none", "encrypt", "decrypt"
    retval,         \* the status the last call returned
    loc,            \* the locals of the running call
    ghost,          \* history: primitives invoked, resources initialised/disposed
    private_cert,   \* keygen's plaintext certificate (encrypt's cert)
    enc_password,   \* the password encrypt was called with
    enc_rounds,     \* the rounds encrypt was called with
    encrypted_cert, \* keygen's encrypted_cert pointer and what it points to
    cert,           \* pubkey's cert buffer (decrypt's encrypted_cert)
    dec_password,   \* the password decrypt was called with
    decrypted_cert, \* pubkey's decrypted_cert pointer and what it points to
    scenario,       \* how the envelope given to decrypt was made
    other,          \* the call of the other thread: its copy of all of the above
    cmd             \* the command that is running: its locals and its terminal

vars == << pc, fn, retval, loc, ghost, private_cert, enc_password, enc_rounds,
           encrypted_cert, cert, dec_password, decrypted_cert, scenario,
           other, cmd >>

\* what no step inside certificate_encrypt, certificate_decrypt or
\* crypt_cipher_mac_init_from_password writes
callerVars == << private_cert, enc_password, enc_rounds, cert, dec_password,
                 scenario, other, cmd >>

Resources ==
    { "salt", "iv", "mac_buffer", "prng", "cipher", "mac", "derived_key",
      "key_derivation", "output" }

NoLocals ==
    [ salt |-> <<>>, iv |-> <<>>, mac_buffer |-> <<>>, mac |-> NoMac,
      cipher |-> NoCipher, derived_key |-> NoKey, password |-> <<>>,
      rounds |-> U32(0), net_rounds |-> <<>>, retval |-> "uninit",
      encrypted_cert_size |-> 0,
      min_encrypted_cert_size |-> 0, cert_size |-> 0, benc |-> 0,
      offset |-> 0, bcert |-> 0, input_offset |-> 0, output_offset |-> 0 ]

NoGhost ==
    [ trace |-> <<>>, fault |-> "none", cause |-> "none", inited |-> {},
      salt |-> <<>>, iv |-> <<>>,
      disposed |-> [r \in Resources |-> 0], wcount |-> <<>>, oob |-> FALSE,
      preempted |-> FALSE ]

\* a pointer to a vccrypt_buffer_t: "null", "raw" (malloc'ed, not initialised),
\* "valid" (initialised), "dangling" (freed, the pointer kept)
NullPtr == [ptr |-> "null", data |-> <<>>]

\* a thread that has not called yet: the values Init gives the variables
IdleCall ==
    [ pc |-> "idle", fn |-> "none", retval |-> "none", loc |-> NoLocals,
      ghost |-> NoGhost, private_cert |-> <<>>, enc_password |-> <<>>,
      enc_rounds |-> U32(0), encrypted_cert |-> NullPtr, cert |-> <<>>,
      dec_password |-> <<>>, decrypted_cert |-> NullPtr,
      scenario |-> [kind |-> "none", pos |-> 0, bit |-> 0] ]

CmdResources ==
    { "password_buffer", "verify_buffer", "private_cert", "encrypted_cert",
      "cert", "decrypted_cert", "uuid", "encryption_pubkey", "signing_pubkey",
      "pubcert", "fd", "out_fd", "output_filename" }

\* the locals of readpassword
NoReadpassword ==
    [ pc |-> "none", passbuffer |-> "none", retval |-> "uninit",
      password_buffer |-> "null", data |-> <<>>, password_offset |-> 0,
      ch |-> 0, zeroed |-> 0, freed |-> 0, oob |-> FALSE,
      signalled |-> FALSE ]

\* no command is running
NoCommand ==
    [ name |-> "none", pc |-> "none", retval |-> "uninit",
      rp |-> NoReadpassword, exit_loop_error |-> FALSE,
      saved_attrs |-> "none", tty |-> "echo", handlers |-> FALSE,
      trace |-> <<>>, inited |-> {},
      disposed |-> [r \in CmdResources |-> 0],
      data |-> [b \in {"password_buffer", "verify_buffer"} |-> <<>>],
      keyfile |-> [exists |-> FALSE, data |-> <<>>],
      written |-> <<>>, ub |-> FALSE,
      stat_output |-> "none",
      stat_key |-> [status |-> "none", mode |-> {}],
      arg_R |-> [given |-> FALSE, value |-> 0],
      root |-> [key_derivation_rounds |-> 0] ]


\* keygen_command_func and pubkey_command_func start with both pointers NULL
Init ==
    /\ pc = "idle"
    /\ fn = "none"
    /\ retval = "none"
    /\ loc = NoLocals
    /\ ghost = NoGhost
    /\ private_cert = <<>>
    /\ enc_password = <<>>
    /\ enc_rounds = U32(0)
    /\ encrypted_cert = NullPtr
    /\ cert = <<>>
    /\ dec_password = <<>>
    /\ decrypted_cert = NullPtr
    /\ scenario = [kind |-> "none", pos |-> 0, bit |-> 0]
    /\ other = IdleCall
    /\ cmd = NoCommand

\* the status a failing vccrypt call returns
VCCRYPT_ERROR == "VCCRYPT_ERROR"

Event(e) == [ghost EXCEPT !.trace = Append(@, e)]
EventOn(g, e) == [g EXCEPT !.trace = Append(@, e)]
Inited(g, r) == [g EXCEPT !.inited = @ \cup {r}]
Faulted(g, f) == [g EXCEPT !.fault = f]
\* dispose() called once on each resource of rs
DisposeAll(g, rs) ==
    [g EXCEPT !.disposed = [r \in Resources |-> @[r] + IF r \in rs THEN 1 ELSE 0]]

LabelIndex(labels, l) == CHOOSE i \in 1..Len(labels) : labels[i] = l
\* the labels control runs through after a goto l
LabelsFrom(labels, l) ==
    {labels[i] : i \in LabelIndex(labels, l)..Len(labels)}

\* memcpy / cipher output of bytes at offset off of a buffer
Write(data, off, bytes) ==
    [i \in 1..Len(data) |->
        IF i > off /\ i <= off + Len(bytes) THEN bytes[i - off] ELSE data[i]]
Counted(wc, off, n) ==
    [i \in 1..Len(wc) |-> wc[i] + IF i > off /\ i <= off + n THEN 1 ELSE 0]
Written(g, size, off, n) ==
    [g EXCEPT !.wcount = Counted(@, off, n),
              !.oob = @ \/ (off + n > size)]

(* ------------------------------------------------- certificate_encrypt *)
EncLabels ==
    << "cleanup_encrypted_cert", "free_encrypted_cert", "cleanup_cipher_mac",
       "cleanup_prng", "cleanup_mac_buffer", "cleanup_iv", "cleanup_salt",
       "done" >>
\* faulty variant: cleanup_prng disposes nothing
EncDisposedAtKeepingPrng(l) ==
    CASE l = "cleanup_encrypted_cert" -> {"output"}
      [] l = "cleanup_cipher_mac" -> {"cipher", "mac"}
      [] l = "cleanup_mac_buffer" -> {"mac_buffer"}
      [] l = "cleanup_iv" -> {"iv"}
      [] l = "cleanup_salt" -> {"salt"}
      [] OTHER -> {}
EncDisposedAt(l) ==
    CASE l = "cleanup_encrypted_cert" -> {"output"}
      [] l = "cleanup_cipher_mac" -> {"cipher", "mac"}
      [] l = "cleanup_prng" -> {"prng"}
      [] l = "cleanup_mac_buffer" -> {"mac_buffer"}
      [] l = "cleanup_iv" -> {"iv"}
      [] l = "cleanup_salt" -> {"salt"}
      [] OTHER -> {}
EncUnwindSet(l) == UNION {EncDisposedAt(m) : m \in LabelsFrom(EncLabels, l)}
\* free(*encrypted_cert) leaves the caller's pointer as it is
EncPointerAfter(l, ec) ==
    IF "free_encrypted_cert" \in LabelsFrom(EncLabels, l)
        THEN [ptr |-> "dangling", data |-> <<>>]
        ELSE ec

\* goto l ... return retval
EncLeave(l, g, lc, ec) ==
    /\ retval' = lc.retval
    /\ ghost' = DisposeAll(g, EncUnwindSet(l))
    /\ encrypted_cert' = EncPointerAfter(l, ec)
    /\ loc' = NoLocals
    /\ fn' = "none"
    /\ pc' = "enc_returned"

\* the call continues at npc
Continue(npc, lc, g) ==
    /\ pc' = npc
    /\ loc' = lc
    /\ ghost' = g
    /\ UNCHANGED << fn, retval >>

Ok(lc) == [lc EXCEPT !.retval = VCCRYPT_STATUS_SUCCESS]
Failed(lc) == [lc EXCEPT !.retval = VCCRYPT_ERROR]

\* keygen_command_func calls certificate_encrypt
EncryptCallWith(W, R, P) ==
    /\ pc = "idle"
    /\ \E w \in W, r \in R, p \in P :
        /\ private_cert' = p
        /\ enc_password' = w
        /\ enc_rounds' = r
        /\ loc' = [NoLocals EXCEPT !.password = w, !.rounds = r]
    /\ fn' = "encrypt"
    /\ pc' = "e_salt_init"
    /\ ghost' = NoGhost
    /\ UNCHANGED << retval, encrypted_cert, cert, dec_password, decrypted_cert,
                    scenario, other, cmd >>

EncryptCall == EncryptCallWith(Passwords, RoundsValues, Plaintexts)

\* a step of certificate_encrypt that calls one vccrypt function: on success
\* the locals become lok, the history gok and the output ecok
EncTry(here, ev, l, npc, lok, gok, ecok) ==
    /\ pc = here
    /\ UNCHANGED << callerVars, decrypted_cert >>
    /\ \E ok \in BOOLEAN :
        IF ok
            THEN /\ Continue(npc, Ok(lok), gok)
                 /\ encrypted_cert' = ecok
            ELSE EncLeave(l, Faulted(Event(ev), here), Failed(loc),
                          encrypted_cert)

EncSaltInit ==
    EncTry("e_salt_init", "vccrypt_buffer_init", "done", "e_iv_init",
           [loc EXCEPT !.salt = UninitBuffer(KeySize)],
           Inited(Event("vccrypt_buffer_init"), "salt"), encrypted_cert)

EncIvInit ==
    EncTry("e_iv_init", "vccrypt_buffer_init", "cleanup_salt",
           "e_mac_buffer_init",
           [loc EXCEPT !.iv = UninitBuffer(IvSize)],
           Inited(Event("vccrypt_buffer_init"), "iv"), encrypted_cert)

EncMacBufferInit ==
    EncTry("e_mac_buffer_init", "vccrypt_suite_buffer_init_for_mac",
           "cleanup_iv", "e_prng_init",
           [loc EXCEPT !.mac_buffer = UninitBuffer(MacSize)],
           Inited(Event("vccrypt_suite_buffer_init_for_mac"), "mac_buffer"),
           encrypted_cert)

EncPrngInit ==
    EncTry("e_prng_init", "vccrypt_suite_prng_init", "cleanup_mac_buffer",
           "e_prng_salt", loc,
           Inited(Event("vccrypt_suite_prng_init"), "prng"), encrypted_cert)

EncPrngSalt ==
    \E seed \in PrngSeeds :
        EncTry("e_prng_salt", "vccrypt_prng_read", "cleanup_prng", "e_prng_iv",
               [loc EXCEPT !.salt = PrngRead(seed, Len(loc.salt))],
               [Event("vccrypt_prng_read") EXCEPT
                    !.salt = PrngRead(seed, Len(loc.salt))],
               encrypted_cert)

EncPrngIv ==
    \E seed \in PrngSeeds :
        EncTry("e_prng_iv", "vccrypt_prng_read", "cleanup_prng",
               "ci_derived_key_init",
               [loc EXCEPT !.iv = PrngRead(seed, Len(loc.iv))],
               [Event("vccrypt_prng_read") EXCEPT
                    !.iv = PrngRead(seed, Len(loc.iv))],
               encrypted_cert)

(* --------------------------------- crypt_cipher_mac_init_from_password *)
CiLabels ==
    << "cleanup_mac", "cleanup_key_derivation", "cleanup_derived_key", "done" >>
\* faulty variant: the derived key is left as it is
CiDisposedAtKeepingKey(l) ==
    CASE l = "cleanup_mac" -> {"mac"}
      [] l = "cleanup_key_derivation" -> {"key_derivation"}
      [] OTHER -> {}
CiDisposedAt(l) ==
    CASE l = "cleanup_mac" -> {"mac"}
      [] l = "cleanup_key_derivation" -> {"key_derivation"}
      [] l = "cleanup_derived_key" -> {"derived_key"}
      [] OTHER -> {}
CiUnwindSet(l) == UNION {CiDisposedAt(m) : m \in LabelsFrom(CiLabels, l)}

(* ------------------------------------------------- certificate_decrypt *)
DecLabels ==
    << "cleanup_cert", "free_cert", "cleanup_cipher_mac", "cleanup_salt",
       "cleanup_mac_buffer", "done" >>
DecDisposedAt(l) ==
    CASE l = "cleanup_cert" -> {"output"}
      [] l = "cleanup_cipher_mac" -> {"cipher", "mac"}
      [] l = "cleanup_salt" -> {"salt"}
      [] l = "cleanup_mac_buffer" -> {"mac_buffer"}
      [] OTHER -> {}
DecUnwindSet(l) == UNION {DecDisposedAt(m) : m \in LabelsFrom(DecLabels, l)}
\* faulty variant: free(*cert) without *cert = NULL
DecPointerAfterFreeOnly(l, dc) ==
    IF "free_cert" \in LabelsFrom(DecLabels, l)
        THEN [ptr |-> "dangling", data |-> <<>>]
        ELSE dc
\* free(*cert); *cert = NULL;
DecPointerAfter(l, dc) ==
    IF "free_cert" \in LabelsFrom(DecLabels, l) THEN NullPtr ELSE dc

\* goto l ... return retval
DecLeave(l, g, lc, dc) ==
    /\ retval' = lc.retval
    /\ ghost' = DisposeAll(g, DecUnwindSet(l))
    /\ decrypted_cert' = DecPointerAfter(l, dc)
    /\ loc' = NoLocals
    /\ fn' = "none"
    /\ pc' = "dec_returned"

\* goto l ... return retval, and the caller's test of the status returned
CiLeave(l, g, lc) ==
    LET g2 == DisposeAll(g, CiUnwindSet(l))
        lc2 == [lc EXCEPT !.derived_key = NoKey]
    IN  IF VCTOOL_STATUS_SUCCESS = lc.retval
            THEN /\ Continue(IF fn = "encrypt" THEN "e_malloc" ELSE "d_malloc",
                             lc2, g2)
                 /\ UNCHANGED << encrypted_cert, decrypted_cert >>
            ELSE IF fn = "encrypt"
                THEN /\ EncLeave("cleanup_prng", g2, lc2, encrypted_cert)
                     /\ UNCHANGED decrypted_cert
                ELSE /\ DecLeave("cleanup_salt", g2, lc2, decrypted_cert)
                     /\ UNCHANGED encrypted_cert

\* a step of crypt_cipher_mac_init_from_password that calls one vccrypt
\* function and goes on to the next step when it succeeds
CiTry(here, ev, l, npc, lok, gok) ==
    /\ pc = here
    /\ UNCHANGED callerVars
    /\ \E ok \in BOOLEAN :
        IF ok
            THEN /\ Continue(npc, Ok(lok), gok)
                 /\ UNCHANGED << encrypted_cert, decrypted_cert >>
            ELSE CiLeave(l, Faulted(Event(ev), here), Failed(loc))

CiDerivedKeyInit ==
    /\ pc = "ci_derived_key_init"
    /\ UNCHANGED callerVars
    /\ \E ok \in BOOLEAN :
        LET g == EventOn(Event("crypt_cipher_mac_init_from_password"),
                         "vccrypt_buffer_init")
        IN  IF ok
                THEN /\ Continue("ci_kd_init", Ok(loc), Inited(g, "derived_key"))
                     /\ UNCHANGED << encrypted_cert, decrypted_cert >>
                ELSE CiLeave("done", Faulted(g, "ci_derived_key_init"),
                             Failed(loc))

CiKeyDerivationInit ==
    CiTry("ci_kd_init", "vccrypt_suite_key_derivation_init",
          "cleanup_derived_key", "ci_derive_key", loc,
          Inited(Event("vccrypt_suite_key_derivation_init"), "key_derivation"))

CiDeriveKey ==
    CiTry("ci_derive_key", "vccrypt_key_derivation_derive_key",
          "cleanup_key_derivation", "ci_mac_init",
          [loc EXCEPT !.derived_key =
                          DeriveKey(loc.password, loc.salt, loc.rounds)],
          Event("vccrypt_key_derivation_derive_key"))

CiMacInit ==
    CiTry("ci_mac_init", "vccrypt_suite_mac_init", "cleanup_key_derivation",
          "ci_stream_init",
          [loc EXCEPT !.mac = MacInit(loc.derived_key)],
          Inited(Event("vccrypt_suite_mac_init"), "mac"))

\* faulty variant: a failed cipher construction skips cleanup_mac
CiStreamInitKeepingMac ==
    /\ pc = "ci_stream_init"
    /\ UNCHANGED callerVars
    /\ \E ok \in BOOLEAN :
        LET g == Event("vccrypt_suite_stream_init") IN
        IF ok
            THEN CiLeave("cleanup_key_derivation", Inited(g, "cipher"),
                         Ok([loc EXCEPT !.cipher = StreamInit(loc.derived_key)]))
            ELSE CiLeave("cleanup_key_derivation",
                         Faulted(g, "ci_stream_init"), Failed(loc))
CiStreamInit ==
    /\ pc = "ci_stream_init"
    /\ UNCHANGED callerVars
    /\ \E ok \in BOOLEAN :
        LET g == Event("vccrypt_suite_stream_init") IN
        IF ok
            THEN CiLeave("cleanup_key_derivation", Inited(g, "cipher"),
                         Ok([loc EXCEPT !.cipher = StreamInit(loc.derived_key)]))
            ELSE CiLeave("cleanup_mac", Faulted(g, "ci_stream_init"),
                         Failed(loc))

(* ------------------------------------- certificate_encrypt, continued *)
\* faulty variant: the size without the MAC
EncryptedCertSizeNoMac(salt_size, iv_size, cert_size) ==
    ENCRYPTED_CERT_MAGIC_SIZE + SizeofUint32 + salt_size + iv_size + cert_size
\* the size of the encrypted certificate file
EncryptedCertSize(salt_size, iv_size, cert_size) ==
    ENCRYPTED_CERT_MAGIC_SIZE + SizeofUint32 + salt_size + iv_size + cert_size
    + MacSize

EncMalloc ==
    /\ pc = "e_malloc"
    /\ UNCHANGED << callerVars, decrypted_cert >>
    /\ \E ok \in BOOLEAN :
        LET lc == [loc EXCEPT !.encrypted_cert_size =
                        EncryptedCertSize(Len(loc.salt), Len(loc.iv),
                                          Len(private_cert))]
            g == Event("malloc")
        IN  IF ok
                THEN /\ Continue("e_buffer_init", lc, g)
                     /\ encrypted_cert' = [ptr |-> "raw", data |-> <<>>]
                ELSE EncLeave("cleanup_cipher_mac", Faulted(g, "e_malloc"), lc,
                              NullPtr)

EncBufferInit ==
    LET size == loc.encrypted_cert_size
        g == Inited(Event("vccrypt_buffer_init"), "output")
    IN  EncTry("e_buffer_init", "vccrypt_buffer_init", "free_encrypted_cert",
               "e_mac_magic",
               [loc EXCEPT !.benc = ENCRYPTED_CERT_MAGIC_SIZE],
               Written([g EXCEPT !.wcount = [i \in 1..size |-> 0]], size, 0,
                       ENCRYPTED_CERT_MAGIC_SIZE),
               [ptr |-> "valid",
                data |-> Write(UninitBuffer(size), 0,
                               ENCRYPTED_CERT_MAGIC_STRING)])

EncMacMagic ==
    LET net_rounds == Htonl(loc.rounds) IN
    EncTry("e_mac_magic", "vccrypt_mac_digest", "cleanup_encrypted_cert",
           "e_mac_rounds",
           [loc EXCEPT !.mac = MacDigest(@, ENCRYPTED_CERT_MAGIC_STRING),
                       !.net_rounds = net_rounds,
                       !.benc = @ + SizeofUint32],
           Written(Event("vccrypt_mac_digest"), Len(encrypted_cert.data),
                   loc.benc, SizeofUint32),
           [encrypted_cert EXCEPT !.data = Write(@, loc.benc, net_rounds)])

EncMacRounds ==
    EncTry("e_mac_rounds", "vccrypt_mac_digest", "cleanup_encrypted_cert",
           "e_mac_salt",
           [loc EXCEPT !.mac = MacDigest(@, loc.net_rounds),
                       !.benc = @ + Len(loc.salt)],
           Written(Event("vccrypt_mac_digest"), Len(encrypted_cert.data),
                   loc.benc, Len(loc.salt)),
           [encrypted_cert EXCEPT !.data = Write(@, loc.benc, loc.salt)])

EncMacSalt ==
    EncTry("e_mac_salt", "vccrypt_mac_digest", "cleanup_encrypted_cert",
           "e_start_encryption",
           [loc EXCEPT !.mac = MacDigest(@, loc.salt)],
           Event("vccrypt_mac_digest"), encrypted_cert)

EncStartEncryption ==
    LET out == StartEncryptionOutput(loc.iv) IN
    EncTry("e_start_encryption", "vccrypt_stream_start_encryption",
           "cleanup_encrypted_cert", "e_stream_encrypt",
           [loc EXCEPT !.cipher = [@ EXCEPT !.iv = loc.iv, !.pos = 0],
                       !.offset = @ + Len(out)],
           Written(Event("vccrypt_stream_start_encryption"),
                   Len(encrypted_cert.data), loc.benc + loc.offset, Len(out)),
           [encrypted_cert EXCEPT
                !.data = Write(@, loc.benc + loc.offset, out)])

EncStreamEncrypt ==
    LET out == StreamEncrypt(loc.cipher, private_cert) IN
    EncTry("e_stream_encrypt", "vccrypt_stream_encrypt",
           "cleanup_encrypted_cert", "e_mac_ciphertext",
           [loc EXCEPT !.cipher = [@ EXCEPT !.pos = @ + Len(out)],
                       !.offset = @ + Len(out)],
           Written(Event("vccrypt_stream_encrypt"), Len(encrypted_cert.data),
                   loc.benc + loc.offset, Len(out)),
           [encrypted_cert EXCEPT
                !.data = Write(@, loc.benc + loc.offset, out)])

EncMacCiphertext ==
    EncTry("e_mac_ciphertext", "vccrypt_mac_digest", "cleanup_encrypted_cert",
           "e_mac_finalize",
           [loc EXCEPT !.mac = MacDigest(@, SubBuf(encrypted_cert.data,
                                                   loc.benc, loc.offset)),
                       !.benc = @ + loc.offset],
           Event("vccrypt_mac_digest"), encrypted_cert)

EncMacFinalize ==
    /\ pc = "e_mac_finalize"
    /\ UNCHANGED << callerVars, decrypted_cert >>
    /\ \E ok \in BOOLEAN :
        LET g == Event("vccrypt_mac_finalize")
            mac_buffer == MacFinalize(loc.mac)
        IN  IF ok
                THEN EncLeave("cleanup_cipher_mac",
                              Written(g, Len(encrypted_cert.data), loc.benc,
                                      Len(mac_buffer)),
                              [loc EXCEPT !.retval = VCTOOL_STATUS_SUCCESS],
                              [encrypted_cert EXCEPT
                                   !.data = Write(@, loc.benc, mac_buffer)])
                ELSE EncLeave("cleanup_encrypted_cert",
                              Faulted(g, "e_mac_finalize"), Failed(loc),
                              encrypted_cert)

(* ------------------------------------- certificate_decrypt, continued *)
BitPositions == 0..7

\* pubkey_command_func calls certificate_decrypt on what it read from the key
\* file: the envelope keygen wrote, or that envelope with one bit flipped or
\* cut short, with the right password or with another one
EnterDecrypt(env, w, sc) ==
    /\ cert' = env
    /\ dec_password' = w
    /\ scenario' = sc
    /\ loc' = [NoLocals EXCEPT !.password = w]
    /\ ghost' = NoGhost
    /\ fn' = "decrypt"
    /\ pc' = "d_mac_buffer_init"
    /\ UNCHANGED << retval, private_cert, enc_password, enc_rounds,
                    encrypted_cert, decrypted_cert, other, cmd >>

DecryptCall ==
    /\ pc = "enc_returned"
    /\ retval = VCTOOL_STATUS_SUCCESS
    /\ encrypted_cert.ptr = "valid"
    /\ LET env == encrypted_cert.data IN
        \/ EnterDecrypt(env, enc_password,
                        [kind |-> "intact", pos |-> 0, bit |-> 0])
        \/ \E w \in Passwords \ {enc_password} :
            EnterDecrypt(env, w,
                         [kind |-> "wrong_password", pos |-> 0, bit |-> 0])
        \/ \E i \in 1..Len(env), k \in BitPositions :
            EnterDecrypt(FlipAt(env, i, k), enc_password,
                         [kind |-> "flip", pos |-> i, bit |-> k])
        \/ \E n \in 0..(Len(env) - 1) :
            EnterDecrypt(SubBuf(env, 0, n), enc_password,
                         [kind |-> "truncate", pos |-> n, bit |-> 0])

\* a step of certificate_decrypt that calls one vccrypt function
DecTry(here, ev, l, npc, lok, gok, dcok) ==
    /\ pc = here
    /\ UNCHANGED << callerVars, encrypted_cert >>
    /\ \E ok \in BOOLEAN :
        IF ok
            THEN /\ Continue(npc, Ok(lok), gok)
                 /\ decrypted_cert' = dcok
            ELSE DecLeave(l, Faulted(Event(ev), here), Failed(loc),
                          decrypted_cert)

DecMacBufferInit ==
    DecTry("d_mac_buffer_init", "vccrypt_suite_buffer_init_for_mac", "done",
           "d_salt_init",
           [loc EXCEPT !.mac_buffer = UninitBuffer(MacSize)],
           Inited(Event("vccrypt_suite_buffer_init_for_mac"), "mac_buffer"),
           decrypted_cert)

DecSaltInit ==
    DecTry("d_salt_init", "vccrypt_buffer_init", "cleanup_mac_buffer",
           "d_check",
           [loc EXCEPT !.salt = UninitBuffer(KeySize)],
           Inited(Event("vccrypt_buffer_init"), "salt"), decrypted_cert)

\* faulty variant: the minimum size without the MAC
MinEncryptedCertSizeNoMac(salt_size) ==
    ENCRYPTED_CERT_MAGIC_SIZE + SizeofUint32 + salt_size + IvSize
\* the minimum size of the encrypted certificate
MinEncryptedCertSize(salt_size) ==
    ENCRYPTED_CERT_MAGIC_SIZE + SizeofUint32 + salt_size + IvSize + MacSize

\* faulty variant: a magic mismatch reported as a format error
MagicMismatchAsSizeError == VCTOOL_ERROR_CERTIFICATE_NOT_MINIMUM_SIZE
\* the status of a magic mismatch
MagicMismatchStatus == VCTOOL_ERROR_CERTIFICATE_VERIFICATION
\* the status of a MAC mismatch
MacMismatchStatus == VCTOOL_ERROR_CERTIFICATE_VERIFICATION

\* faulty variant: the size test lets through an envelope without room for
\* the MAC
BelowMinimumSizeButMac(size, min) == size + MacSize < min
\* encrypted_cert->size < min_encrypted_cert_size
BelowMinimumSize(size, min) == size < min

\* faulty variant: the magic is not compared
DecCheckMagicUnchecked ==
    /\ pc = "d_check"
    /\ UNCHANGED << callerVars, encrypted_cert >>
    /\ LET min == MinEncryptedCertSize(Len(loc.salt))
           lc == [loc EXCEPT !.min_encrypted_cert_size = min]
       IN  IF BelowMinimumSize(Len(cert), min)
               THEN DecLeave("cleanup_salt",
                        [ghost EXCEPT !.cause = "size"],
                        [lc EXCEPT !.retval =
                            VCTOOL_ERROR_CERTIFICATE_NOT_MINIMUM_SIZE],
                        decrypted_cert)
           ELSE /\ Continue("ci_derived_key_init",
                        [lc EXCEPT
                            !.rounds = Ntohl(SubBuf(cert,
                                ENCRYPTED_CERT_MAGIC_SIZE, SizeofUint32)),
                            !.salt = SubBuf(cert,
                                ENCRYPTED_CERT_MAGIC_SIZE + SizeofUint32,
                                Len(loc.salt)),
                            !.bcert = ENCRYPTED_CERT_MAGIC_SIZE + SizeofUint32
                                      + Len(loc.salt)],
                        Event("memcpy"))
                /\ UNCHANGED decrypted_cert
\* the size check, the magic check and the reading of rounds and salt
DecCheck ==
    /\ pc = "d_check"
    /\ UNCHANGED << callerVars, encrypted_cert >>
    /\ LET min == MinEncryptedCertSize(Len(loc.salt))
           lc == [loc EXCEPT !.min_encrypted_cert_size = min]
       IN  IF BelowMinimumSize(Len(cert), min)
               THEN DecLeave("cleanup_salt",
                        [ghost EXCEPT !.cause = "size"],
                        [lc EXCEPT !.retval =
                            VCTOOL_ERROR_CERTIFICATE_NOT_MINIMUM_SIZE],
                        decrypted_cert)
           ELSE IF crypto_memcmp(SubBuf(cert, 0, ENCRYPTED_CERT_MAGIC_SIZE),
                                 ENCRYPTED_CERT_MAGIC_STRING) # 0
               THEN DecLeave("cleanup_salt",
                        [Event("crypto_memcmp") EXCEPT !.cause = "magic"],
                        [lc EXCEPT !.retval = MagicMismatchStatus],
                        decrypted_cert)
           ELSE /\ Continue("ci_derived_key_init",
                        [lc EXCEPT
                            !.rounds = Ntohl(SubBuf(cert,
                                ENCRYPTED_CERT_MAGIC_SIZE, SizeofUint32)),
                            !.salt = SubBuf(cert,
                                ENCRYPTED_CERT_MAGIC_SIZE + SizeofUint32,
                                Len(loc.salt)),
                            !.bcert = ENCRYPTED_CERT_MAGIC_SIZE + SizeofUint32
                                      + Len(loc.salt)],
                        EventOn(Event("crypto_memcmp"), "memcpy"))
                /\ UNCHANGED decrypted_cert

DecMalloc ==
    /\ pc = "d_malloc"
    /\ UNCHANGED << callerVars, encrypted_cert >>
    /\ \E ok \in BOOLEAN :
        LET g == Event("malloc") IN
        IF ok
            THEN /\ Continue("d_buffer_init", loc, g)
                 /\ decrypted_cert' = [ptr |-> "raw", data |-> <<>>]
            ELSE DecLeave("cleanup_cipher_mac", Faulted(g, "d_malloc"), loc,
                          NullPtr)

DecBufferInit ==
    LET cert_size == SizeSub(Len(cert), loc.min_encrypted_cert_size) IN
    DecTry("d_buffer_init", "vccrypt_buffer_init", "free_cert",
           "d_mac_digest",
           [loc EXCEPT !.cert_size = cert_size],
           Inited(Event("vccrypt_buffer_init"), "output"),
           [ptr |-> "valid", data |-> UninitBuffer(cert_size)])

\* faulty variant: the trailing tag is fed to the MAC as well
DecMacDigestWholeEnvelope ==
    DecTry("d_mac_digest", "vccrypt_mac_digest", "cleanup_cert",
           "d_mac_finalize",
           [loc EXCEPT !.mac = MacDigest(@, SubBuf(cert, 0, Len(cert)))],
           Event("vccrypt_mac_digest"), decrypted_cert)
\* mac the whole envelope but its trailing tag
DecMacDigest ==
    DecTry("d_mac_digest", "vccrypt_mac_digest", "cleanup_cert",
           "d_mac_finalize",
           [loc EXCEPT !.mac = MacDigest(@,
                SubBuf(cert, 0, SizeSub(Len(cert), Len(loc.mac_buffer))))],
           Event("vccrypt_mac_digest"), decrypted_cert)

\* faulty variant: the result of the tag comparison is not acted upon
DecMacFinalizeIgnoringCompare ==
    /\ pc = "d_mac_finalize"
    /\ UNCHANGED << callerVars, encrypted_cert >>
    /\ \E ok \in BOOLEAN :
        LET g == Event("vccrypt_mac_finalize")
            mac_buffer == MacFinalize(loc.mac)
            certmac == SubBuf(cert, SizeSub(Len(cert), Len(mac_buffer)),
                              Len(mac_buffer))
        IN  IF ~ok
                THEN DecLeave("cleanup_cert", Faulted(g, "d_mac_finalize"),
                              Failed(loc), decrypted_cert)
                ELSE /\ Continue("d_start_decryption",
                                 Ok([loc EXCEPT !.mac_buffer = mac_buffer]),
                                 EventOn(g, IF crypto_memcmp(certmac,
                                                             mac_buffer) # 0
                                               THEN "tag_mismatch"
                                               ELSE "tag_match"))
                     /\ UNCHANGED decrypted_cert
\* finalize the MAC and compare it with the envelope's trailing tag
DecMacFinalize ==
    /\ pc = "d_mac_finalize"
    /\ UNCHANGED << callerVars, encrypted_cert >>
    /\ \E ok \in BOOLEAN :
        LET g == Event("vccrypt_mac_finalize")
            mac_buffer == MacFinalize(loc.mac)
            certmac == SubBuf(cert, SizeSub(Len(cert), Len(mac_buffer)),
                              Len(mac_buffer))
        IN  IF ~ok
                THEN DecLeave("cleanup_cert", Faulted(g, "d_mac_finalize"),
                              Failed(loc), decrypted_cert)
            ELSE IF crypto_memcmp(certmac, mac_buffer) # 0
                THEN DecLeave("cleanup_cert",
                        [EventOn(g, "tag_mismatch") EXCEPT !.cause = "mac"],
                        [loc EXCEPT !.retval = MacMismatchStatus],
                        decrypted_cert)
            ELSE /\ Continue("d_start_decryption",
                             Ok([loc EXCEPT !.mac_buffer = mac_buffer]),
                             EventOn(g, "tag_match"))
                 /\ UNCHANGED decrypted_cert

DecStartDecryption ==
    DecTry("d_start_decryption", "vccrypt_stream_start_decryption",
           "cleanup_cert", "d_stream_decrypt",
           [loc EXCEPT !.cipher = [@ EXCEPT !.iv = SubBuf(cert, loc.bcert,
                                                          IvSize),
                                            !.pos = 0],
                       !.input_offset = IvSize],
           Event("vccrypt_stream_start_decryption"), decrypted_cert)

\* faulty variant: the plaintext is also written over the envelope it was read
\* from
DecStreamDecryptInPlace ==
    /\ pc = "d_stream_decrypt"
    /\ UNCHANGED << private_cert, enc_password, enc_rounds, dec_password,
                    scenario, other, cmd, encrypted_cert >>
    /\ \E ok \in BOOLEAN :
        LET g == Event("vccrypt_stream_decrypt")
            out == StreamDecrypt(loc.cipher,
                       SubBuf(cert, loc.bcert + loc.input_offset,
                              loc.cert_size))
        IN  /\ cert' = Write(cert, loc.bcert + loc.input_offset, out)
            /\ IF ok
                THEN DecLeave("cleanup_cipher_mac", g,
                              [loc EXCEPT !.retval = VCTOOL_STATUS_SUCCESS],
                              [decrypted_cert EXCEPT
                                   !.data = Write(@, 0, out)])
                ELSE DecLeave("cleanup_cert", Faulted(g, "d_stream_decrypt"),
                              Failed(loc), decrypted_cert)
DecStreamDecrypt ==
    /\ pc = "d_stream_decrypt"
    /\ UNCHANGED << callerVars, encrypted_cert >>
    /\ \E ok \in BOOLEAN :
        LET g == Event("vccrypt_stream_decrypt")
            out == StreamDecrypt(loc.cipher,
                       SubBuf(cert, loc.bcert + loc.input_offset,
                              loc.cert_size))
        IN  IF ok
                THEN DecLeave("cleanup_cipher_mac", g,
                              [loc EXCEPT !.retval = VCTOOL_STATUS_SUCCESS],
                              [decrypted_cert EXCEPT
                                   !.data = Write(@, 0, out)])
                ELSE DecLeave("cleanup_cert", Faulted(g, "d_stream_decrypt"),
                              Failed(loc), decrypted_cert)

(* ---------------------------------------------------------- specification *)
Next ==
    \/ EncryptCall
    \/ EncSaltInit
    \/ EncIvInit
    \/ EncMacBufferInit
    \/ EncPrngInit
    \/ EncPrngSalt
    \/ EncPrngIv
    \/ CiDerivedKeyInit
    \/ CiKeyDerivationInit
    \/ CiDeriveKey
    \/ CiMacInit
    \/ CiStreamInit
    \/ EncMalloc
    \/ EncBufferInit
    \/ EncMacMagic
    \/ EncMacRounds
    \/ EncMacSalt
    \/ EncStartEncryption
    \/ EncStreamEncrypt
    \/ EncMacCiphertext
    \/ EncMacFinalize
    \/ DecryptCall
    \/ DecMacBufferInit
    \/ DecSaltInit
    \/ DecCheck
    \/ DecMalloc
    \/ DecBufferInit
    \/ DecMacDigest
    \/ DecMacFinalize
    \/ DecStartDecryption
    \/ DecStreamDecrypt

Spec == Init /\ [][Next]_vars

(* ------------------------------------------------------- two threads *)
\* Two threads each call certificate_encrypt and then certificate_decrypt on
\* their own arguments and output pointers, with the same suite.  The
\* variables hold the call of the thread that is running; `other' holds the
\* call of the thread that is not.
ThreadPasswords == Passwords
ThreadRounds == {U32(258)}
ThreadPlaintexts == {<< Lit(104) >>}

\* the call of the running thread
Context ==
    [ pc |-> pc, fn |-> fn, retval |-> retval, loc |-> loc, ghost |-> ghost,
      private_cert |-> private_cert, enc_password |-> enc_password,
      enc_rounds |-> enc_rounds, encrypted_cert |-> encrypted_cert,
      cert |-> cert, dec_password |-> dec_password,
      decrypted_cert |-> decrypted_cert, scenario |-> scenario ]

\* the running thread is preempted in the middle of its call
Preempted(c) ==
    [c EXCEPT !.ghost.preempted = @ \/ (c.fn # "none" /\ other.fn # "none")]

\* faulty variant: net_rounds has static storage, the two threads share it
SwitchSharingNetRounds ==
    /\ other' = Preempted(Context)
    /\ pc' = other.pc
    /\ fn' = other.fn
    /\ retval' = other.retval
    /\ loc' = [other.loc EXCEPT !.net_rounds = loc.net_rounds]
    /\ ghost' = other.ghost
    /\ private_cert' = other.private_cert
    /\ enc_password' = other.enc_password
    /\ enc_rounds' = other.enc_rounds
    /\ encrypted_cert' = other.encrypted_cert
    /\ cert' = other.cert
    /\ dec_password' = other.dec_password
    /\ decrypted_cert' = other.decrypted_cert
    /\ scenario' = other.scenario
    /\ UNCHANGED cmd
\* the scheduler runs the other thread: the parameters and the automatic
\* variables of a call belong to the thread that made it
Switch ==
    /\ other' = Preempted(Context)
    /\ pc' = other.pc
    /\ fn' = other.fn
    /\ retval' = other.retval
    /\ loc' = other.loc
    /\ ghost' = other.ghost
    /\ private_cert' = other.private_cert
    /\ enc_password' = other.enc_password
    /\ enc_rounds' = other.enc_rounds
    /\ encrypted_cert' = other.encrypted_cert
    /\ cert' = other.cert
    /\ dec_password' = other.dec_password
    /\ decrypted_cert' = other.decrypted_cert
    /\ scenario' = other.scenario
    /\ UNCHANGED cmd

ThreadEncryptCall ==
    EncryptCallWith(ThreadPasswords, ThreadRounds, ThreadPlaintexts)

\* the thread decrypts, with the same password, the envelope it was returned
ThreadDecryptCall ==
    /\ pc = "enc_returned"
    /\ retval = VCTOOL_STATUS_SUCCESS
    /\ encrypted_cert.ptr = "valid"
    /\ EnterDecrypt(encrypted_cert.data, enc_password,
                    [kind |-> "intact", pos |-> 0, bit |-> 0])

NextConcurrent ==
    \/ Switch
    \/ ThreadEncryptCall
    \/ ThreadDecryptCall
    \/ EncSaltInit
    \/ EncIvInit
    \/ EncMacBufferInit
    \/ EncPrngInit
    \/ EncPrngSalt
    \/ EncPrngIv
    \/ CiDerivedKeyInit
    \/ CiKeyDerivationInit
    \/ CiDeriveKey
    \/ CiMacInit
    \/ CiStreamInit
    \/ EncMalloc
    \/ EncBufferInit
    \/ EncMacMagic
    \/ EncMacRounds
    \/ EncMacSalt
    \/ EncStartEncryption
    \/ EncStreamEncrypt
    \/ EncMacCiphertext
    \/ EncMacFinalize
    \/ DecMacBufferInit
    \/ DecSaltInit
    \/ DecCheck
    \/ DecMalloc
    \/ DecBufferInit
    \/ DecMacDigest
    \/ DecMacFinalize
    \/ DecStartDecryption
    \/ DecStreamDecrypt

SpecConcurrent == Init /\ [][NextConcurrent]_vars

(* --------------------------------------------------------------- commands *)
\* keygen_command_func and pubkey_command_func, run from a terminal, and
\* readpassword, which both call.  `cmd' holds the command's locals, the
\* locals and the two globals of readpassword, the terminal and the key file.

\* password_max, scaled down from the 4096 of the code
PasswordMax == 3
\* '\n'
Newline == 10
\* the characters a user types in a passphrase
Chars == {112, 119}
\* what atoi makes of the argument of -R on the command line, when it is given
RoundsArguments ==
    {[given |-> FALSE, value |-> 0]}
        \cup {[given |-> TRUE, value |-> v] : v \in {-1, 0, 258}}
\* the private certificate keypair_certificate_create makes
PrivateCerts == {<< Lit(104) >>}

VCTOOL_ERROR_READPASSWORD_STDIN_NOT_A_TERMINAL ==
    "VCTOOL_ERROR_READPASSWORD_STDIN_NOT_A_TERMINAL"
VCTOOL_ERROR_READPASSWORD_READ == "VCTOOL_ERROR_READPASSWORD_READ"
VCTOOL_ERROR_READPASSWORD_TCSETATTR == "VCTOOL_ERROR_READPASSWORD_TCSETATTR"
VCTOOL_ERROR_GENERAL_OUT_OF_MEMORY == "VCTOOL_ERROR_GENERAL_OUT_OF_MEMORY"
VCTOOL_ERROR_COMMANDLINE_MISSING_ARGUMENT ==
    "VCTOOL_ERROR_COMMANDLINE_MISSING_ARGUMENT"
VCTOOL_ERROR_FILE_NO_ENTRY == "VCTOOL_ERROR_FILE_NO_ENTRY"
\* any other status of the file interface
VCTOOL_ERROR_FILE == "VCTOOL_ERROR_FILE"
VCTOOL_ERROR_COMMANDLINE_BAD_KEY_ROUNDS ==
    "VCTOOL_ERROR_COMMANDLINE_BAD_KEY_ROUNDS"

callVars ==
    << pc, fn, retval, loc, ghost, private_cert, enc_password, enc_rounds,
       encrypted_cert, cert, dec_password, decrypted_cert, scenario >>

CmdEvent(c, e) == [c EXCEPT !.trace = Append(@, e)]
CmdInited(c, r) == [c EXCEPT !.inited = @ \cup {r}]
CmdDisposeAll(c, rs) ==
    [c EXCEPT !.disposed =
        [r \in CmdResources |-> @[r] + IF r \in rs THEN 1 ELSE 0]]

(* ----------------------------------------------------------- readpassword *)
\* retval = readpassword(opts, &buffer): the call
ReadpasswordCall(c, buffer) ==
    [CmdEvent(c, "readpassword") EXCEPT
        !.rp = [NoReadpassword EXCEPT !.pc = "rp_tcgetattr",
                                      !.passbuffer = buffer]]
\* done: return retval;
ReadpasswordReturn(c, status) ==
    [c EXCEPT !.rp.pc = "returned", !.rp.retval = status, !.retval = status]
\* cleanup_buffer: memset(password_buffer, 0, password_max); free(...)
CleanupBuffer(c) ==
    [c EXCEPT !.rp.data = [i \in 1..PasswordMax |-> 0],
              !.rp.zeroed = @ + 1,
              !.rp.password_buffer = "freed",
              !.rp.freed = @ + 1]
\* readpassword_restore_termattrs: tcsetattr may fail
RestoreTermattrs(c, ok) == IF ok THEN [c EXCEPT !.tty = c.saved_attrs] ELSE c
\* readpassword_restore_handlers
RestoreHandlers(c) == [c EXCEPT !.handlers = FALSE]

InReadpassword(step) ==
    /\ cmd.name # "none"
    /\ cmd.rp.pc = step
    /\ UNCHANGED << callVars, other >>

RpTcgetattr ==
    /\ InReadpassword("rp_tcgetattr")
    /\ \E ok \in BOOLEAN :
        cmd' = IF ok
            THEN [cmd EXCEPT !.saved_attrs = cmd.tty,
                             !.rp.pc = "rp_install_handlers"]
            ELSE ReadpasswordReturn(cmd,
                     VCTOOL_ERROR_READPASSWORD_STDIN_NOT_A_TERMINAL)

RpInstallHandlers ==
    /\ InReadpassword("rp_install_handlers")
    /\ cmd' = [cmd EXCEPT !.handlers = TRUE, !.rp.pc = "rp_set_termattrs"]

RpSetTermattrs ==
    /\ InReadpassword("rp_set_termattrs")
    /\ \E ok \in BOOLEAN :
        cmd' = IF ok
            THEN [cmd EXCEPT !.tty = "noecho", !.rp.pc = "rp_malloc"]
            ELSE ReadpasswordReturn(RestoreHandlers(cmd),
                     VCTOOL_ERROR_READPASSWORD_TCSETATTR)

RpMalloc ==
    /\ InReadpassword("rp_malloc")
    /\ \E ok \in BOOLEAN, restored \in BOOLEAN :
        cmd' = IF ok
            THEN [cmd EXCEPT !.rp.password_buffer = "allocated",
                             !.rp.data = [i \in 1..PasswordMax |-> -1],
                             !.rp.password_offset = 0,
                             !.rp.pc = "rp_loop_init"]
            ELSE ReadpasswordReturn(
                     RestoreHandlers(RestoreTermattrs(cmd, restored)),
                     VCTOOL_ERROR_GENERAL_OUT_OF_MEMORY)

RpLoopInit ==
    /\ InReadpassword("rp_loop_init")
    /\ cmd' = [cmd EXCEPT !.exit_loop_error = FALSE, !.rp.pc = "rp_loop"]

\* while (!exit_loop_error && ch != '\n')
RpLoop ==
    /\ InReadpassword("rp_loop")
    /\ cmd' = [cmd EXCEPT !.rp.pc =
                  IF ~cmd.exit_loop_error /\ cmd.rp.ch # Newline
                      THEN "rp_read" ELSE "rp_restore_termattrs"]

\* what read(0, &ch, 1) gives: a character, end of file (0) or an error (-1)
ReadResults ==
    {[n |-> 1, ch |-> c] : c \in Chars \cup {Newline}}
        \cup {[n |-> 0, ch |-> 0], [n |-> -1, ch |-> 0]}

\* faulty variant: the buffer is taken to be full one byte too late
RpReadOffByOne ==
    /\ InReadpassword("rp_read")
    /\ \E r \in ReadResults :
        LET ch == IF r.n = 1 THEN r.ch ELSE cmd.rp.ch
            failed == cmd.exit_loop_error \/ r.n < 0
            offset == cmd.rp.password_offset
        IN  cmd' =
                IF ch # Newline
                    THEN [cmd EXCEPT
                            !.rp.ch = ch,
                            !.rp.data =
                                IF offset < PasswordMax
                                    THEN [@ EXCEPT ![offset + 1] = ch] ELSE @,
                            !.rp.oob = @ \/ offset >= PasswordMax,
                            !.rp.password_offset = offset + 1,
                            !.exit_loop_error =
                                failed \/ offset + 1 > PasswordMax,
                            !.rp.pc = "rp_loop"]
                    ELSE [cmd EXCEPT !.rp.ch = ch,
                                     !.exit_loop_error = failed,
                                     !.rp.pc = "rp_loop"]
\* one turn of the loop: read a character, append it if it is not enter
RpRead ==
    /\ InReadpassword("rp_read")
    /\ \E r \in ReadResults :
        LET ch == IF r.n = 1 THEN r.ch ELSE cmd.rp.ch
            failed == cmd.exit_loop_error \/ r.n < 0
            offset == cmd.rp.password_offset
        IN  cmd' =
                IF ch # Newline
                    THEN [cmd EXCEPT
                            !.rp.ch = ch,
                            !.rp.data =
                                IF offset < PasswordMax
                                    THEN [@ EXCEPT ![offset + 1] = ch] ELSE @,
                            !.rp.oob = @ \/ offset >= PasswordMax,
                            !.rp.password_offset = offset + 1,
                            !.exit_loop_error =
                                failed \/ offset + 1 >= PasswordMax,
                            !.rp.pc = "rp_loop"]
                    ELSE [cmd EXCEPT !.rp.ch = ch,
                                     !.exit_loop_error = failed,
                                     !.rp.pc = "rp_loop"]

RpRestoreTermattrs ==
    /\ InReadpassword("rp_restore_termattrs")
    /\ \E ok \in BOOLEAN :
        cmd' = IF ok
            THEN [RestoreTermattrs(cmd, TRUE) EXCEPT
                      !.rp.pc = "rp_restore_handlers"]
            ELSE ReadpasswordReturn(CleanupBuffer(RestoreHandlers(cmd)),
                     VCTOOL_ERROR_READPASSWORD_TCSETATTR)

\* restore the old handlers, then leave if the loop ended with an error
RpRestoreHandlers ==
    /\ InReadpassword("rp_restore_handlers")
    /\ cmd' = IF cmd.exit_loop_error
           THEN ReadpasswordReturn(CleanupBuffer(RestoreHandlers(cmd)),
                    VCTOOL_ERROR_READPASSWORD_READ)
           ELSE [RestoreHandlers(cmd) EXCEPT !.rp.pc = "rp_buffer_init"]

\* allocate the caller's buffer and copy the password into it
RpBufferInit ==
    /\ InReadpassword("rp_buffer_init")
    /\ \E ok \in BOOLEAN :
        cmd' = IF ok
            THEN ReadpasswordReturn(
                     CleanupBuffer(
                         [CmdInited(cmd, cmd.rp.passbuffer) EXCEPT
                             !.data[cmd.rp.passbuffer] =
                                 SubSeq(cmd.rp.data, 1,
                                        cmd.rp.password_offset)]),
                     VCTOOL_STATUS_SUCCESS)
            ELSE ReadpasswordReturn(CleanupBuffer(cmd), VCCRYPT_ERROR)

\* readpassword_sig_handler, run when a signal arrives while it is installed
RpSignal ==
    /\ cmd.name # "none"
    /\ cmd.handlers
    /\ UNCHANGED << callVars, other >>
    /\ \E ok \in BOOLEAN :
        cmd' = [RestoreTermattrs(cmd, ok) EXCEPT !.exit_loop_error = TRUE,
                                                 !.rp.signalled = TRUE]

(* ---------------------------------------------------- keygen_command_func *)
KgLabels ==
    << "cleanup_file", "cleanup_encrypted_cert", "cleanup_private_cert",
       "cleanup_password_buffer", "done" >>
KgDisposedAt(l) ==
    CASE l = "cleanup_file" -> {"fd"}
      [] l = "cleanup_encrypted_cert" ->
            IF encrypted_cert.ptr # "null" THEN {"encrypted_cert"} ELSE {}
      [] l = "cleanup_private_cert" -> {"private_cert"}
      [] l = "cleanup_password_buffer" -> {"password_buffer"}
      [] OTHER -> {}
KgUnwindSet(l) == UNION {KgDisposedAt(m) : m \in LabelsFrom(KgLabels, l)}

\* goto l ... return retval
KgLeave(c, l) ==
    /\ cmd' = [CmdDisposeAll(c, KgUnwindSet(l)) EXCEPT !.pc = "returned"]
    /\ encrypted_cert' =
           IF "encrypted_cert" \in KgUnwindSet(l)
               THEN [ptr |-> "dangling", data |-> <<>>]
               ELSE encrypted_cert
KgContinue(c, npc) ==
    /\ cmd' = [c EXCEPT !.pc = npc]
    /\ UNCHANGED encrypted_cert

callVarsButOutput ==
    << pc, fn, retval, loc, ghost, private_cert, enc_password, enc_rounds,
       cert, dec_password, scenario >>

InKeygen(step) ==
    /\ cmd.name = "keygen"
    /\ cmd.pc = step
    /\ cmd.rp.pc \in {"none", "returned"}

\* memset(root, 0, sizeof(root_command)): the root command starts cleared
root_command_init == [key_derivation_rounds |-> 0]

\* the root command commandline_opts_init builds from the command line: -R
\* with a value <= 0 is rejected, any other value replaces the initial one
commandline_opts_init(arg) ==
    LET root == root_command_init IN
    IF arg.given /\ arg.value <= 0
        THEN [retval |-> VCTOOL_ERROR_COMMANDLINE_BAD_KEY_ROUNDS,
              root |-> root]
    ELSE IF arg.given
        THEN [retval |-> VCTOOL_STATUS_SUCCESS,
              root |-> [root EXCEPT !.key_derivation_rounds = arg.value]]
    ELSE [retval |-> VCTOOL_STATUS_SUCCESS, root |-> root]

\* the tool is run as keygen: the command line is read and, when it is
\* accepted, keygen_command_func starts
KeygenStart ==
    /\ cmd.name = "none"
    /\ pc = "idle"
    /\ \E arg \in RoundsArguments :
        LET o == commandline_opts_init(arg) IN
        cmd' = IF VCTOOL_STATUS_SUCCESS # o.retval
            THEN [NoCommand EXCEPT !.name = "main", !.pc = "exited",
                                   !.retval = o.retval, !.arg_R = arg,
                                   !.root = o.root]
            ELSE [NoCommand EXCEPT !.name = "keygen", !.pc = "k_file_stat",
                                   !.arg_R = arg, !.root = o.root]
    /\ UNCHANGED << callVars, other >>

FileStatResults ==
    {VCTOOL_STATUS_SUCCESS, VCTOOL_ERROR_FILE_NO_ENTRY, VCTOOL_ERROR_FILE}

\* faulty variant: only an existing file stops the command
KeygenFileStatStoppingOnlyIfExists ==
    /\ InKeygen("k_file_stat")
    /\ UNCHANGED << callVarsButOutput, decrypted_cert, other >>
    /\ \E st \in FileStatResults :
        LET c == [CmdEvent(cmd, "file_stat") EXCEPT !.retval = st,
                                                    !.stat_output = st] IN
        IF VCTOOL_STATUS_SUCCESS = st
            THEN KgLeave(c, "done")
            ELSE KgContinue(ReadpasswordCall(c, "password_buffer"),
                            "k_password_read")
\* make sure we don't clobber an existing file, then ask for a passphrase
KeygenFileStat ==
    /\ InKeygen("k_file_stat")
    /\ UNCHANGED << callVarsButOutput, decrypted_cert, other >>
    /\ \E st \in FileStatResults :
        LET c == [CmdEvent(cmd, "file_stat") EXCEPT !.retval = st,
                                                    !.stat_output = st] IN
        IF VCTOOL_ERROR_FILE_NO_ENTRY # st
            THEN KgLeave(c, "done")
            ELSE KgContinue(ReadpasswordCall(c, "password_buffer"),
                            "k_password_read")

\* the passphrase was read: read the verification passphrase if it is not empty
KeygenPasswordRead ==
    /\ InKeygen("k_password_read")
    /\ UNCHANGED << callVarsButOutput, decrypted_cert, other >>
    /\ IF VCCRYPT_STATUS_SUCCESS # cmd.retval
           THEN KgLeave(cmd, "done")
       ELSE IF Len(cmd.data["password_buffer"]) > 0
           THEN KgContinue(ReadpasswordCall(cmd, "verify_buffer"),
                           "k_verify_read")
       ELSE KgContinue(cmd, "k_create")

\* faulty variant: only the lengths of the two passphrases are compared
KeygenVerifyReadLengthOnly ==
    /\ InKeygen("k_verify_read")
    /\ UNCHANGED << callVarsButOutput, decrypted_cert, other >>
    /\ LET password == cmd.data["password_buffer"]
           verify == cmd.data["verify_buffer"]
           c == CmdDisposeAll(cmd, {"verify_buffer"})
       IN  IF VCCRYPT_STATUS_SUCCESS # cmd.retval
               THEN KgLeave(cmd, "cleanup_password_buffer")
           ELSE IF Len(password) # Len(verify)
               THEN KgLeave(c, "cleanup_password_buffer")
           ELSE KgContinue(c, "k_create")
\* the verification passphrase was read: verify that the two match
KeygenVerifyRead ==
    /\ InKeygen("k_verify_read")
    /\ UNCHANGED << callVarsButOutput, decrypted_cert, other >>
    /\ LET password == cmd.data["password_buffer"]
           verify == cmd.data["verify_buffer"]
           c == CmdDisposeAll(cmd, {"verify_buffer"})
       IN  IF VCCRYPT_STATUS_SUCCESS # cmd.retval
               THEN KgLeave(cmd, "cleanup_password_buffer")
           ELSE IF \/ Len(password) # Len(verify)
                   \/ crypto_memcmp(password, verify) # 0
               THEN KgLeave(c, "cleanup_password_buffer")
           ELSE KgContinue(c, "k_create")

\* generate a private certificate, then encrypt it if there is a passphrase
KeygenCreate ==
    /\ InKeygen("k_create")
    /\ UNCHANGED << pc, fn, retval, loc, ghost, enc_password, enc_rounds, cert,
                    dec_password, scenario, decrypted_cert, other >>
    /\ \E ok \in BOOLEAN, p \in PrivateCerts :
        LET c == CmdEvent(cmd, "keypair_certificate_create") IN
        IF ok
            THEN /\ private_cert' = p
                 /\ KgContinue([CmdInited(c, "private_cert") EXCEPT
                                    !.retval = VCTOOL_STATUS_SUCCESS],
                               IF Len(cmd.data["password_buffer"]) > 0
                                   THEN "k_encrypt" ELSE "k_file_open")
            ELSE /\ UNCHANGED private_cert
                 /\ KgLeave([c EXCEPT !.retval = VCCRYPT_ERROR],
                            "cleanup_password_buffer")

\* certificate_encrypt(opts, &encrypted_cert, &private_cert,
\*                     &password_buffer, root->key_derivation_rounds)
KeygenEncryptCall ==
    /\ InKeygen("k_encrypt")
    /\ EncryptCallWith({cmd.data["password_buffer"]},
                       {U32(cmd.root.key_derivation_rounds)}, {private_cert})

\* certificate_encrypt has returned
KeygenEncryptReturn ==
    /\ InKeygen("k_encrypt")
    /\ pc = "enc_returned"
    /\ UNCHANGED << callVarsButOutput, decrypted_cert, other >>
    /\ LET c == [CmdEvent(cmd, "certificate_encrypt") EXCEPT !.retval = retval,
                     !.inited = @ \cup IF encrypted_cert.ptr = "valid"
                                           THEN {"encrypted_cert"} ELSE {}]
       IN  IF VCTOOL_STATUS_SUCCESS # retval
               THEN KgLeave(c, "cleanup_private_cert")
               ELSE KgContinue(c, "k_file_open")

\* open a file readable / writable by user, and no one else
KeygenFileOpen ==
    /\ InKeygen("k_file_open")
    /\ UNCHANGED << callVarsButOutput, decrypted_cert, other >>
    /\ \E ok \in BOOLEAN :
        LET c == CmdEvent(cmd, "file_open") IN
        IF ok
            THEN KgContinue([CmdInited(c, "fd") EXCEPT
                                !.retval = VCTOOL_STATUS_SUCCESS],
                            "k_file_write")
            ELSE KgLeave([c EXCEPT !.retval = VCTOOL_ERROR_FILE],
                         "cleanup_encrypted_cert")

\* what file_write does: all of it, part of it, or a failure
WriteResults == {"all", "part", "error"}

\* determine which certificate to write, and write it to the file
KeygenFileWrite ==
    /\ InKeygen("k_file_write")
    /\ UNCHANGED << callVarsButOutput, decrypted_cert, other >>
    /\ \E res \in WriteResults :
        LET write_cert == IF encrypted_cert.ptr # "null"
                              THEN encrypted_cert.data ELSE private_cert
            wrote == IF res = "all" THEN write_cert
                     ELSE SubSeq(write_cert, 1, Len(write_cert) - 1)
            c == [CmdEvent(cmd, "file_write") EXCEPT
                     !.written = write_cert,
                     !.keyfile = [exists |-> TRUE, data |-> wrote],
                     !.retval = IF res = "error" THEN VCTOOL_ERROR_FILE
                                ELSE VCTOOL_STATUS_SUCCESS]
        IN  KgLeave(c, "cleanup_file")

(* ---------------------------------------------------- pubkey_command_func *)
\* key files that keygen did not write: an empty file, a file of the magic
\* alone, and a file of the magic and one more byte
KeyFiles ==
    { <<>>, ENCRYPTED_CERT_MAGIC_STRING,
      ENCRYPTED_CERT_MAGIC_STRING \o << Lit(0) >> }

PkLabels ==
    << "cleanup_outfile", "cleanup_pubcert", "cleanup_cert_fields",
       "cleanup_file", "cleanup_cert", "free_output_filename", "done" >>
PkDisposedAt(l) ==
    CASE l = "cleanup_outfile" -> {"out_fd"}
      [] l = "cleanup_pubcert" -> {"pubcert"}
      [] l = "cleanup_cert_fields" ->
            {"uuid", "encryption_pubkey", "signing_pubkey"}
      [] l = "cleanup_file" -> {"fd"}
      [] l = "cleanup_cert" ->
            {"cert"} \cup IF decrypted_cert.ptr # "null"
                              THEN {"decrypted_cert"} ELSE {}
      [] l = "free_output_filename" -> {"output_filename"}
      [] OTHER -> {}
PkUnwindSet(l) == UNION {PkDisposedAt(m) : m \in LabelsFrom(PkLabels, l)}

\* goto l ... return retval
PkLeave(c, l) ==
    /\ cmd' = [CmdDisposeAll(c, PkUnwindSet(l)) EXCEPT !.pc = "returned"]
    /\ decrypted_cert' =
           IF "decrypted_cert" \in PkUnwindSet(l)
               THEN [ptr |-> "dangling", data |-> <<>>]
               ELSE decrypted_cert
PkContinue(c, npc) ==
    /\ cmd' = [c EXCEPT !.pc = npc]
    /\ UNCHANGED decrypted_cert

InPubkey(step) ==
    /\ cmd.name = "pubkey"
    /\ cmd.pc = step
    /\ cmd.rp.pc \in {"none", "returned"}

\* one step of pubkey_command_func that calls one collaborator: on success
\* resource r is initialised and the command goes on at npc, on failure it
\* leaves through label l
PkTry(here, ev, r, npc, l) ==
    /\ InPubkey(here)
    /\ UNCHANGED << callVarsButOutput, encrypted_cert, other >>
    /\ \E ok \in BOOLEAN :
        LET c == CmdEvent(cmd, ev) IN
        IF ok
            THEN PkContinue([c EXCEPT !.inited = @ \cup r,
                                      !.retval = VCTOOL_STATUS_SUCCESS], npc)
            ELSE PkLeave([c EXCEPT !.retval = VCTOOL_ERROR_FILE], l)

\* the command is run, after keygen or with another key file in place
PubkeyStart ==
    /\ \/ cmd.name = "none"
       \/ cmd.name = "keygen" /\ cmd.pc = "returned"
    /\ pc \in {"idle", "enc_returned"}
    /\ \E f \in IF cmd.keyfile.exists THEN {cmd.keyfile.data} ELSE KeyFiles :
        cmd' = [NoCommand EXCEPT !.name = "pubkey", !.pc = "p_key_filename",
                                 !.keyfile = [exists |-> TRUE, data |-> f]]
    /\ pc' = "idle"
    /\ fn' = "none"
    /\ retval' = "none"
    /\ loc' = NoLocals
    /\ ghost' = NoGhost
    /\ private_cert' = <<>>
    /\ enc_password' = <<>>
    /\ enc_rounds' = U32(0)
    /\ encrypted_cert' = NullPtr
    /\ cert' = <<>>
    /\ dec_password' = <<>>
    /\ decrypted_cert' = NullPtr
    /\ scenario' = [kind |-> "none", pos |-> 0, bit |-> 0]
    /\ UNCHANGED other

\* get the key filename and the output filename
PubkeyFilenames ==
    /\ InPubkey("p_key_filename")
    /\ UNCHANGED << callVarsButOutput, encrypted_cert, other >>
    /\ \E given \in BOOLEAN :
        IF given
            THEN PkContinue(CmdInited(cmd, "output_filename"),
                            "p_stat_output")
            ELSE PkLeave([cmd EXCEPT !.retval =
                              VCTOOL_ERROR_COMMANDLINE_MISSING_ARGUMENT],
                         "done")

\* make sure we don't clobber an existing file
PubkeyStatOutput ==
    /\ InPubkey("p_stat_output")
    /\ UNCHANGED << callVarsButOutput, encrypted_cert, other >>
    /\ \E st \in FileStatResults :
        LET c == [CmdEvent(cmd, "file_stat") EXCEPT !.retval = st,
                                                    !.stat_output = st] IN
        IF VCTOOL_ERROR_FILE_NO_ENTRY # st
            THEN PkLeave(c, "free_output_filename")
            ELSE PkContinue(c, "p_stat_key")

\* the permission bits of a mode_t
S_IRWXG == {"S_IRGRP", "S_IWGRP", "S_IXGRP"}
S_IRWXO == {"S_IROTH", "S_IWOTH", "S_IXOTH"}
\* faulty variant: the group bits are allowed
BadBitsButGroup == {"S_ISUID", "S_ISGID", "S_ISVTX"} \cup S_IRWXO
\* mode_t bad_bits = S_ISUID | S_ISGID | S_ISVTX | S_IRWXG | S_IRWXO
BadBits == {"S_ISUID", "S_ISGID", "S_ISVTX"} \cup S_IRWXG \cup S_IRWXO
\* the modes a key file is found with: user read and write, alone or with one
\* more bit, and user modes without read
KeyFileModes ==
    {{"S_IRUSR", "S_IWUSR"} \cup {b} :
        b \in {"S_IWUSR", "S_ISUID", "S_ISGID", "S_ISVTX"}
                 \cup S_IRWXG \cup S_IRWXO}
        \cup {{"S_IWUSR"}, {}}

\* make sure the key file exists and its permission bits are set appropriately
PubkeyStatKey ==
    /\ InPubkey("p_stat_key")
    /\ UNCHANGED << callVarsButOutput, encrypted_cert, other >>
    /\ \E st \in FileStatResults, fst_mode \in KeyFileModes :
        LET c == [CmdEvent(cmd, "file_stat") EXCEPT
                     !.retval = st,
                     !.stat_key = [status |-> st, mode |-> fst_mode]] IN
        IF VCTOOL_STATUS_SUCCESS # st
            THEN PkLeave(c, "free_output_filename")
        ELSE IF fst_mode \cap BadBits # {}
            THEN PkLeave(c, "free_output_filename")
        ELSE IF "S_IRUSR" \notin fst_mode
            THEN PkLeave(c, "free_output_filename")
        ELSE PkContinue(c, "p_cert_init")

PubkeyCertInit ==
    PkTry("p_cert_init", "vccrypt_buffer_init", {"cert"}, "p_file_open",
          "free_output_filename")

PubkeyFileOpen ==
    PkTry("p_file_open", "file_open", {"fd"}, "p_file_read", "cleanup_cert")

\* what file_read does: all of the file, part of it, or a failure
ReadFileResults == {"all", "part", "error"}

\* read contents into certificate buffer; if it has encryption magic, ask for
\* the passphrase
PubkeyFileRead ==
    /\ InPubkey("p_file_read")
    /\ UNCHANGED << pc, fn, retval, loc, ghost, private_cert, enc_password,
                    enc_rounds, dec_password, scenario, encrypted_cert, other >>
    /\ \E res \in ReadFileResults :
        LET c == [CmdEvent(cmd, "file_read") EXCEPT
                     !.retval = IF res = "error" THEN VCTOOL_ERROR_FILE
                                ELSE VCTOOL_STATUS_SUCCESS]
            data == cmd.keyfile.data
        IN  IF res # "all"
                THEN /\ UNCHANGED cert
                     /\ PkLeave(c, "cleanup_file")
                ELSE /\ cert' = data
                     /\ IF /\ Len(data) > ENCRYPTED_CERT_MAGIC_SIZE
                           /\ crypto_memcmp(
                                  SubBuf(data, 0, ENCRYPTED_CERT_MAGIC_SIZE),
                                  ENCRYPTED_CERT_MAGIC_STRING) = 0
                            THEN PkContinue(
                                     ReadpasswordCall(c, "password_buffer"),
                                     "p_password_read")
                            ELSE PkContinue(c, "p_extract")

\* the passphrase was read
PubkeyPasswordRead ==
    /\ InPubkey("p_password_read")
    /\ UNCHANGED << callVarsButOutput, encrypted_cert, other >>
    /\ IF VCTOOL_STATUS_SUCCESS # cmd.retval
           THEN PkLeave(cmd, "cleanup_file")
           ELSE PkContinue(cmd, "p_decrypt")

\* certificate_decrypt(opts, &decrypted_cert, &cert, &password_buffer)
PubkeyDecryptCall ==
    /\ InPubkey("p_decrypt")
    /\ pc = "idle"
    /\ EnterDecrypt(cert, cmd.data["password_buffer"],
                    [kind |-> "file", pos |-> 0, bit |-> 0])

\* faulty variant: the passphrase is not disposed when decryption fails
PubkeyDecryptReturnKeepingPassword ==
    /\ InPubkey("p_decrypt")
    /\ pc = "dec_returned"
    /\ UNCHANGED << callVarsButOutput, encrypted_cert, other >>
    /\ LET c == [CmdEvent(cmd, "certificate_decrypt") EXCEPT
                     !.retval = retval,
                     !.inited = @ \cup IF decrypted_cert.ptr = "valid"
                                           THEN {"decrypted_cert"} ELSE {}]
       IN  IF VCTOOL_STATUS_SUCCESS # retval
               THEN PkLeave(c, "cleanup_file")
               ELSE PkContinue(CmdDisposeAll(c, {"password_buffer"}),
                               "p_extract")
\* certificate_decrypt has returned: dispose the passphrase either way
PubkeyDecryptReturn ==
    /\ InPubkey("p_decrypt")
    /\ pc = "dec_returned"
    /\ UNCHANGED << callVarsButOutput, encrypted_cert, other >>
    /\ LET c == [CmdEvent(cmd, "certificate_decrypt") EXCEPT
                     !.retval = retval,
                     !.inited = @ \cup IF decrypted_cert.ptr = "valid"
                                           THEN {"decrypted_cert"} ELSE {}]
       IN  IF VCTOOL_STATUS_SUCCESS # retval
               THEN PkLeave(CmdDisposeAll(c, {"password_buffer"}),
                            "cleanup_file")
               ELSE PkContinue(CmdDisposeAll(c, {"password_buffer"}),
                               "p_extract")

\* extract uuid, public encryption key, and public signing key from work_cert,
\* which is decrypted_cert after a decryption and &cert otherwise; reading
\* through a null work_cert is undefined: the command crashes, or goes on
\* either way
PubkeyExtract ==
    /\ InPubkey("p_extract")
    /\ UNCHANGED << callVarsButOutput, encrypted_cert, other >>
    /\ LET decrypted == "password_buffer" \in cmd.inited
           null == decrypted /\ decrypted_cert.ptr = "null"
           c == [CmdEvent(cmd, "pubkey_extract_public_fields") EXCEPT
                    !.ub = @ \/ null]
       IN  \/ /\ null
              /\ PkContinue(c, "crashed")
           \/ \E ok \in BOOLEAN :
                IF ok
                    THEN PkContinue(
                             [c EXCEPT
                                 !.inited = @ \cup {"uuid", "encryption_pubkey",
                                                    "signing_pubkey"},
                                 !.retval = VCTOOL_STATUS_SUCCESS],
                             "p_create")
                    ELSE PkLeave([c EXCEPT !.retval = VCCRYPT_ERROR],
                                 "cleanup_file")

PubkeyCertificateCreate ==
    PkTry("p_create", "pubkey_certificate_create", {"pubcert"}, "p_out_open",
          "cleanup_cert_fields")

PubkeyOutOpen ==
    PkTry("p_out_open", "file_open", {"out_fd"}, "p_out_write",
          "cleanup_pubcert")

\* write this cert to the output file
PubkeyOutWrite ==
    /\ InPubkey("p_out_write")
    /\ UNCHANGED << callVarsButOutput, encrypted_cert, other >>
    /\ \E res \in WriteResults :
        PkLeave([CmdEvent(cmd, "file_write") EXCEPT
                    !.retval = IF res = "error" THEN VCTOOL_ERROR_FILE
                               ELSE VCTOOL_STATUS_SUCCESS],
                "cleanup_outfile")

NextCommands ==
    \/ KeygenStart
    \/ KeygenFileStat
    \/ KeygenPasswordRead
    \/ KeygenVerifyRead
    \/ KeygenCreate
    \/ KeygenEncryptCall
    \/ KeygenEncryptReturn
    \/ KeygenFileOpen
    \/ KeygenFileWrite
    \/ PubkeyStart
    \/ PubkeyFilenames
    \/ PubkeyStatOutput
    \/ PubkeyStatKey
    \/ PubkeyCertInit
    \/ PubkeyFileOpen
    \/ PubkeyFileRead
    \/ PubkeyPasswordRead
    \/ PubkeyDecryptCall
    \/ PubkeyDecryptReturn
    \/ PubkeyExtract
    \/ PubkeyCertificateCreate
    \/ PubkeyOutOpen
    \/ PubkeyOutWrite
    \/ RpTcgetattr
    \/ RpInstallHandlers
    \/ RpSetTermattrs
    \/ RpMalloc
    \/ RpLoopInit
    \/ RpLoop
    \/ RpRead
    \/ RpRestoreTermattrs
    \/ RpRestoreHandlers
    \/ RpBufferInit
    \/ RpSignal
    \/ EncSaltInit
    \/ EncIvInit
    \/ EncMacBufferInit
    \/ EncPrngInit
    \/ EncPrngSalt
    \/ EncPrngIv
    \/ CiDerivedKeyInit
    \/ CiKeyDerivationInit
    \/ CiDeriveKey
    \/ CiMacInit
    \/ CiStreamInit
    \/ EncMalloc
    \/ EncBufferInit
    \/ EncMacMagic
    \/ EncMacRounds
    \/ EncMacSalt
    \/ EncStartEncryption
    \/ EncStreamEncrypt
    \/ EncMacCiphertext
    \/ EncMacFinalize
    \/ DecMacBufferInit
    \/ DecSaltInit
    \/ DecCheck
    \/ DecMalloc
    \/ DecBufferInit
    \/ DecMacDigest
    \/ DecMacFinalize
    \/ DecStartDecryption
    \/ DecStreamDecrypt

SpecCommands == Init /\ [][NextCommands]_vars

(* ------------------------------------------------------ readpassword alone *)
\* one call of readpassword from a terminal; the thread that runs it keeps
\* running, and read() returns each time it is called
InitReadpassword ==
    /\ pc = "idle"
    /\ fn = "none"
    /\ retval = "none"
    /\ loc = NoLocals
    /\ ghost = NoGhost
    /\ private_cert = <<>>
    /\ enc_password = <<>>
    /\ enc_rounds = U32(0)
    /\ encrypted_cert = NullPtr
    /\ cert = <<>>
    /\ dec_password = <<>>
    /\ decrypted_cert = NullPtr
    /\ scenario = [kind |-> "none", pos |-> 0, bit |-> 0]
    /\ other = IdleCall
    /\ cmd = ReadpasswordCall([NoCommand EXCEPT !.name = "caller"],
                              "password_buffer")

NextReadpassword ==
    \/ RpTcgetattr
    \/ RpInstallHandlers
    \/ RpSetTermattrs
    \/ RpMalloc
    \/ RpLoopInit
    \/ RpLoop
    \/ RpRead
    \/ RpRestoreTermattrs
    \/ RpRestoreHandlers
    \/ RpBufferInit
    \/ RpSignal

SpecReadpassword ==
    /\ InitReadpassword
    /\ [][NextReadpassword]_vars
    /\ WF_vars(RpLoop)
    /\ WF_vars(RpRead)

(* ---------------------------------------------------------- file wrappers *)
\* file_stat, file_open, file_close, file_read and file_write, called on a
\* file interface whose methods record how they were invoked.  `cmd' holds
\* the call: the wrapper, its arguments, the invocations the interface saw
\* and the status the wrapper returned.

\* file interfaces, paths, descriptors, open flags, modes and sizes of a call
FileInterfaces == {"f1", "f2"}
FilePaths == {"keypair.cert", "out.pub"}
FileDescriptors == {"d3", "d4"}
FileFlags == {"O_RDONLY", "O_CREAT|O_EXCL|O_WRONLY"}
FileModes == {"0", "S_IRUSR|S_IWUSR"}
FileSizes == {"0", "n"}
\* what a method of the interface may return: any int
MethodStatuses ==
    {VCTOOL_STATUS_SUCCESS, VCTOOL_ERROR_FILE_NO_ENTRY, VCTOOL_ERROR_FILE,
     "NOT_A_VCTOOL_CODE"}

FileArguments(w) ==
    CASE w = "file_stat" ->
            {<< f, path, "&filestat" >> :
                f \in FileInterfaces, path \in FilePaths}
      [] w = "file_open" ->
            {<< f, "&d", path, flags, mode >> :
                f \in FileInterfaces, path \in FilePaths,
                flags \in FileFlags, mode \in FileModes}
      [] w = "file_close" ->
            {<< f, d >> : f \in FileInterfaces, d \in FileDescriptors}
      [] w = "file_read" ->
            {<< f, d, "buf", max, "&rbytes" >> :
                f \in FileInterfaces, d \in FileDescriptors,
                max \in FileSizes}
      [] w = "file_write" ->
            {<< f, d, "buf", max, "&wbytes" >> :
                f \in FileInterfaces, d \in FileDescriptors,
                max \in FileSizes}

FileWrappers ==
    {"file_stat", "file_open", "file_close", "file_read", "file_write"}

NoFileCall ==
    [ name |-> "file", pc |-> "idle", wrapper |-> "none", args |-> <<>>,
      invoked |-> <<>>, retval |-> "none" ]

InitFile ==
    /\ pc = "idle"
    /\ fn = "none"
    /\ retval = "none"
    /\ loc = NoLocals
    /\ ghost = NoGhost
    /\ private_cert = <<>>
    /\ enc_password = <<>>
    /\ enc_rounds = U32(0)
    /\ encrypted_cert = NullPtr
    /\ cert = <<>>
    /\ dec_password = <<>>
    /\ decrypted_cert = NullPtr
    /\ scenario = [kind |-> "none", pos |-> 0, bit |-> 0]
    /\ other = IdleCall
    /\ cmd = NoFileCall

\* a caller calls one of the wrappers
FileCall ==
    /\ cmd.pc = "idle"
    /\ \E w \in FileWrappers :
        \E a \in FileArguments(w) :
            cmd' = [cmd EXCEPT !.pc = "entered", !.wrapper = w, !.args = a]
    /\ UNCHANGED << callVars, other >>

\* return f->method(args): the method of interface f is invoked with args and
\* what it returns is returned
Forward(w, method, f, args) ==
    /\ cmd.pc = "entered"
    /\ cmd.wrapper = w
    /\ \E st \in MethodStatuses :
        cmd' = [cmd EXCEPT
                   !.invoked = Append(@, [interface |-> f, method |-> method,
                                          args |-> args, status |-> st]),
                   !.retval = st,
                   !.pc = "returned"]
    /\ UNCHANGED << callVars, other >>

file_stat ==
    Forward("file_stat", "file_stat_method", cmd.args[1], cmd.args)
\* faulty variant: the mode is not passed on
file_open_without_mode ==
    Forward("file_open", "file_open_method", cmd.args[1],
            [cmd.args EXCEPT ![5] = "0"])
file_open ==
    Forward("file_open", "file_open_method", cmd.args[1], cmd.args)
file_close ==
    Forward("file_close", "file_close_method", cmd.args[1], cmd.args)
file_read ==
    Forward("file_read", "file_read_method", cmd.args[1], cmd.args)
file_write ==
    Forward("file_write", "file_write_method", cmd.args[1], cmd.args)

NextFile ==
    \/ FileCall
    \/ file_stat
    \/ file_open
    \/ file_close
    \/ file_read
    \/ file_write

SpecFile == InitFile /\ [][NextFile]_vars

(* ---------------------------------------------------------------- claims *)
EncReturned == pc = "enc_returned"
DecReturned == pc = "dec_returned"
Invoked(e) == \E i \in 1..Len(ghost.trace) : ghost.trace[i] = e
\* the key certificate_encrypt derived in the call that made the envelope
EnvelopeKey == DeriveKey(enc_password, ghost.salt, enc_rounds)
FixedOverhead ==
    ENCRYPTED_CERT_MAGIC_SIZE + SizeofUint32 + KeySize + IvSize + MacSize

\* C1: decrypting, with the same password, the envelope a successful
\* certificate_encrypt produced succeeds and returns a buffer of the same
\* length and content as the plaintext, when no collaborator fails.
C1_RoundTrip ==
    (DecReturned /\ scenario.kind = "intact" /\ ghost.fault = "none")
        => /\ retval = VCTOOL_STATUS_SUCCESS
           /\ decrypted_cert.ptr = "valid"
           /\ Len(decrypted_cert.data) = Len(private_cert)
           /\ decrypted_cert.data = private_cert
C1_Witness ==
    /\ DecReturned
    /\ scenario.kind = "intact"
    /\ ghost.fault = "none"
    /\ Len(private_cert) = MaxPlain
    /\ decrypted_cert.data = private_cert

\* C2: certificate_decrypt of an envelope with one bit flipped, with the
\* original password, fails -- with VCTOOL_ERROR_CERTIFICATE_VERIFICATION or,
\* when a collaborator failed, with that failure -- and never returns success
\* nor hands a buffer to the caller.
C2_TamperDetection ==
    (DecReturned /\ scenario.kind = "flip")
        => /\ \/ retval = VCTOOL_ERROR_CERTIFICATE_VERIFICATION
              \/ (ghost.fault # "none" /\ retval # VCTOOL_STATUS_SUCCESS)
           /\ decrypted_cert.ptr # "valid"

\* C3: vccrypt_stream_start_decryption and vccrypt_stream_decrypt are invoked
\* only after the MAC was finalized and compared equal to the trailing tag;
\* after a tag mismatch neither is invoked.
CipherOps ==
    {"vccrypt_stream_start_decryption", "vccrypt_stream_decrypt"}
C3_MacBeforeDecrypt ==
    \A i \in 1..Len(ghost.trace) :
        ghost.trace[i] \in CipherOps
            => /\ \E j \in 1..(i - 1) : ghost.trace[j] = "vccrypt_mac_finalize"
               /\ \E j \in 1..(i - 1) : ghost.trace[j] = "tag_match"
               /\ ~Invoked("tag_mismatch")
C3_Witness ==
    /\ DecReturned
    /\ Invoked("vccrypt_stream_start_decryption")
    /\ Invoked("vccrypt_stream_decrypt")
    /\ Invoked("tag_match")

\* C4 (as claimed): for every envelope smaller than the fixed overhead,
\* certificate_decrypt returns VCTOOL_ERROR_CERTIFICATE_NOT_MINIMUM_SIZE, invokes
\* no key derivation, MAC or stream cipher primitive and reads no envelope byte.
CryptoEvents ==
    { "crypt_cipher_mac_init_from_password",
      "vccrypt_suite_key_derivation_init", "vccrypt_key_derivation_derive_key",
      "vccrypt_suite_mac_init", "vccrypt_suite_stream_init",
      "vccrypt_mac_digest", "vccrypt_mac_finalize",
      "vccrypt_stream_start_decryption", "vccrypt_stream_decrypt" }
EnvelopeReads == {"crypto_memcmp", "memcpy"}
Undersized == Len(cert) < FixedOverhead
NoCryptoNoRead ==
    \A i \in 1..Len(ghost.trace) :
        ghost.trace[i] \notin (CryptoEvents \cup EnvelopeReads)
C4_Original ==
    (DecReturned /\ Undersized)
        => /\ retval = VCTOOL_ERROR_CERTIFICATE_NOT_MINIMUM_SIZE
           /\ NoCryptoNoRead
\* C4 (amended): for every envelope smaller than the fixed overhead,
\* certificate_decrypt returns VCTOOL_ERROR_CERTIFICATE_NOT_MINIMUM_SIZE, unless
\* the initialisation of the MAC buffer or of the salt buffer, which precede
\* the size check, failed, and then it returns that failure; in every case no
\* key derivation, MAC or stream cipher primitive is invoked and no envelope
\* byte is read, at any point of the call.
C4_MinimumSize ==
    ((fn = "decrypt" \/ DecReturned) /\ Undersized)
        => /\ NoCryptoNoRead
           /\ DecReturned
                => \/ retval = VCTOOL_ERROR_CERTIFICATE_NOT_MINIMUM_SIZE
                   \/ /\ ghost.fault \in {"d_mac_buffer_init", "d_salt_init"}
                      /\ retval = VCCRYPT_ERROR
C4_Witness ==
    /\ DecReturned
    /\ Len(cert) = FixedOverhead - 1
    /\ retval = VCTOOL_ERROR_CERTIFICATE_NOT_MINIMUM_SIZE

\* C5: certificate_decrypt with a password other than the one the envelope
\* was made with fails -- with VCTOOL_ERROR_CERTIFICATE_VERIFICATION or, when a
\* collaborator failed, with that failure -- and returns no plaintext.
C5_WrongPassword ==
    (DecReturned /\ scenario.kind = "wrong_password")
        => /\ \/ retval = VCTOOL_ERROR_CERTIFICATE_VERIFICATION
              \/ (ghost.fault # "none" /\ retval # VCTOOL_STATUS_SUCCESS)
           /\ decrypted_cert.ptr # "valid"

\* C6: certificate_encrypt and certificate_decrypt return either success with
\* the output pointer referring to a fully initialised buffer, or a
\* non-success status; a failed malloc of the output gives non-success.
FullyInitialised(b) ==
    /\ b.ptr = "valid"
    /\ \A i \in 1..Len(b.data) : b.data[i].kind # "uninit"
C6_SuccessIffOutput ==
    /\ EncReturned
        => /\ retval = VCTOOL_STATUS_SUCCESS => FullyInitialised(encrypted_cert)
           /\ ghost.fault = "e_malloc" => retval # VCTOOL_STATUS_SUCCESS
    /\ DecReturned
        => /\ retval = VCTOOL_STATUS_SUCCESS => FullyInitialised(decrypted_cert)
           /\ ghost.fault = "d_malloc" => retval # VCTOOL_STATUS_SUCCESS

C8_Layout ==
    (EncReturned /\ retval = VCTOOL_STATUS_SUCCESS
        /\ encrypted_cert.ptr # "null")
        => LET e == encrypted_cert.data
               n == Len(private_cert)
               body == 7 + KeySize + IvSize
           IN  /\ Len(e) = body + n + MacSize
               /\ <<e[1].v, e[2].v, e[3].v>> = <<69, 78, 67>>
               /\ \A i \in 1..7 : e[i].kind = "lit"
               /\ e[4].v * 256 + e[5].v = enc_rounds.hi
               /\ e[6].v * 256 + e[7].v = enc_rounds.lo
               /\ \A i \in 1..KeySize : e[7 + i] = ghost.salt[i]
               /\ \A i \in 1..IvSize : e[7 + KeySize + i] = ghost.iv[i]
               /\ \A i \in 1..n :
                    e[body + i] = [kind |-> "ct",
                                   id |-> <<EnvelopeKey, ghost.iv, i>>,
                                   v |-> private_cert[i].v]
               /\ \A j \in 1..MacSize :
                    e[body + n + j] =
                        [kind |-> "tag",
                         id |-> <<EnvelopeKey, SubBuf(e, 0, body + n), j>>,
                         v |-> 0]
               /\ \A i \in 1..Len(e) : ghost.wcount[i] = 1
               /\ ~ghost.oob
C8_Witness ==
    /\ EncReturned
    /\ retval = VCTOOL_STATUS_SUCCESS
    /\ encrypted_cert.ptr = "valid"
    /\ enc_rounds = U32(258)
    /\ Len(private_cert) = MaxPlain

\* C9: for an envelope of at least the minimum size, a rejection by the magic
\* check and a rejection by the MAC check return the same status,
\* VCTOOL_ERROR_CERTIFICATE_VERIFICATION, and the same output pointer (null).
C9_Indistinguishable ==
    (DecReturned /\ ~Undersized /\ ghost.cause \in {"magic", "mac"})
        => /\ retval = VCTOOL_ERROR_CERTIFICATE_VERIFICATION
           /\ decrypted_cert = NullPtr
C9_Witness ==
    /\ DecReturned
    /\ ~Undersized
    /\ ghost.cause = "magic"
    /\ retval = VCTOOL_ERROR_CERTIFICATE_VERIFICATION

\* C10: whenever certificate_decrypt returns a non-success status, the
\* caller's output pointer is null.
C10_NoOutputOnFailure ==
    (DecReturned /\ retval # VCTOOL_STATUS_SUCCESS)
        => decrypted_cert.ptr = "null"
C10_Witness ==
    /\ DecReturned
    /\ retval = VCTOOL_ERROR_CERTIFICATE_VERIFICATION
    /\ ghost.cause = "mac"
    /\ "output" \in ghost.inited
    /\ decrypted_cert.ptr = "null"

\* C11: whenever certificate_encrypt returns a non-success status, the
\* caller's output pointer is as it was at entry (null) or refers to a fully
\* valid buffer; it never refers to a buffer that was disposed or freed.
C11_NoPartialEnvelope ==
    (EncReturned /\ retval # VCTOOL_STATUS_SUCCESS)
        => \/ encrypted_cert = NullPtr
           \/ FullyInitialised(encrypted_cert)

\* C12: when crypt_cipher_mac_init_from_password returns a non-success status
\* neither the MAC nor the cipher is left constructed, and a MAC built before
\* the cipher construction failed was disposed; when it returns success both
\* are constructed from the key derived from the password, the salt and the
\* rounds, and neither was disposed.
CiSteps ==
    { "ci_derived_key_init", "ci_kd_init", "ci_derive_key", "ci_mac_init",
      "ci_stream_init" }
Constructed(r) == r \in ghost.inited /\ ghost.disposed[r] = 0
C12_AllOrNothing ==
    /\ ((EncReturned \/ DecReturned) /\ ghost.fault \in CiSteps)
        => /\ retval # VCTOOL_STATUS_SUCCESS
           /\ ~Constructed("mac")
           /\ ~Constructed("cipher")
           /\ ghost.fault = "ci_stream_init"
                => ("mac" \in ghost.inited /\ ghost.disposed["mac"] = 1)
    /\ pc \in {"e_malloc", "d_malloc"}
        => LET key == DeriveKey(loc.password, loc.salt, loc.rounds)
           IN  /\ Constructed("mac")
               /\ Constructed("cipher")
               /\ loc.mac = MacInit(key)
               /\ loc.cipher = StreamInit(key)
C12_Witness ==
    /\ EncReturned
    /\ ghost.fault = "ci_stream_init"
    /\ "mac" \in ghost.inited
    /\ ghost.disposed["mac"] = 1

\* C13: once crypt_cipher_mac_init_from_password has returned, the derived-key
\* buffer, if it was allocated, was disposed exactly once, and so was the
\* key-derivation context, if it was constructed; neither is disposed while
\* the function still runs, nor when its initialisation failed.
KeyResources == {"derived_key", "key_derivation"}
C13_DerivedKeyDisposed ==
    \A r \in KeyResources :
        IF pc \in CiSteps
            THEN ghost.disposed[r] = 0
            ELSE /\ ghost.disposed[r] = IF r \in ghost.inited THEN 1 ELSE 0
                 /\ loc.derived_key = NoKey
C13_Witness ==
    /\ DecReturned
    /\ ghost.fault = "ci_mac_init"
    /\ KeyResources \subseteq ghost.inited
    /\ \A r \in KeyResources : ghost.disposed[r] = 1

\* C14: when certificate_encrypt or certificate_decrypt returns, with success
\* or after a failure at any step, each of the salt buffer, the IV buffer, the
\* MAC tag buffer, the PRNG, the cipher context and the MAC context was
\* disposed exactly once if its initialisation succeeded in that call, and
\* not at all otherwise.
Intermediate == {"salt", "iv", "mac_buffer", "prng", "cipher", "mac"}
C14_FullUnwinding ==
    (EncReturned \/ DecReturned)
        => \A r \in Intermediate :
            ghost.disposed[r] = IF r \in ghost.inited THEN 1 ELSE 0
C14_Witness ==
    /\ EncReturned
    /\ ghost.fault = "e_start_encryption"
    /\ Intermediate \subseteq ghost.inited
    /\ \A r \in Intermediate : ghost.disposed[r] = 1

\* C15: what certificate_encrypt has fed to the MAC when it finalizes it --
\* the magic, the four big-endian rounds bytes, the salt, then the IV framing
\* and the ciphertext -- is the envelope's bytes [0, size - mac_size) in order;
\* certificate_decrypt feeds the same range of its envelope to the MAC, and
\* on the untouched envelope computes the tag the envelope ends with.
C15_MacCoverage ==
    /\ pc = "e_mac_finalize"
        => LET e == encrypted_cert.data
               covered == Len(e) - MacSize
           IN  /\ loc.benc = covered
               /\ loc.mac.data = SubBuf(e, 0, covered)
               /\ loc.mac.data =
                      ENCRYPTED_CERT_MAGIC_STRING \o Htonl(enc_rounds)
                      \o loc.salt
                      \o SubBuf(e, 7 + KeySize, IvSize + Len(private_cert))
    /\ pc = "d_mac_finalize"
        => /\ loc.mac.data = SubBuf(cert, 0, Len(cert) - MacSize)
           /\ scenario.kind = "intact"
                => MacFinalize(loc.mac)
                       = SubBuf(cert, Len(cert) - MacSize, MacSize)
C15_Witness ==
    /\ pc = "d_mac_finalize"
    /\ scenario.kind = "intact"
    /\ Len(private_cert) = MaxPlain
    /\ Len(loc.mac.data) = 7 + KeySize + IvSize + MaxPlain

\* C16: in certificate_decrypt, past the size check the envelope is at least
\* min_encrypted_cert_size = 3 + 4 + key_size + iv_size + mac_size bytes long,
\* so that the size of the plaintext buffer is the non-negative
\* envelope size - (3 + 4 + key_size + iv_size + mac_size), not wrapped around.
PastSizeCheck ==
    CiSteps \cup { "d_malloc", "d_buffer_init", "d_mac_digest",
                   "d_mac_finalize", "d_start_decryption", "d_stream_decrypt" }
PastBufferInit ==
    {"d_mac_digest", "d_mac_finalize", "d_start_decryption", "d_stream_decrypt"}
C16_NoUnderflow ==
    (fn = "decrypt" /\ pc \in PastSizeCheck)
        => /\ loc.min_encrypted_cert_size = FixedOverhead
           /\ Len(cert) >= loc.min_encrypted_cert_size
           /\ pc \in PastBufferInit
                => /\ loc.cert_size = Len(cert) - FixedOverhead
                   /\ loc.cert_size >= 0
                   /\ Len(decrypted_cert.data) = loc.cert_size
C16_Witness ==
    /\ fn = "decrypt"
    /\ pc = "d_mac_digest"
    /\ Len(cert) = FixedOverhead
    /\ loc.cert_size = 0

\* C18: certificate_decrypt calls crypt_cipher_mac_init_from_password, and so
\* the KDF, at most once, only after the size check and the magic comparison
\* passed, and with the rounds and the salt read from the envelope; a
\* rejection by the magic check follows no KDF invocation and a rejection by
\* the tag comparison follows exactly one.
Count(e) == Cardinality({i \in 1..Len(ghost.trace) : ghost.trace[i] = e})
KdfCount == Count("vccrypt_key_derivation_derive_key")
CiCount == Count("crypt_cipher_mac_init_from_password")
Before(e1, e2) ==
    \A i \in 1..Len(ghost.trace) :
        ghost.trace[i] = e2 => \E j \in 1..(i - 1) : ghost.trace[j] = e1
Both(P(_)) == P(Context) /\ P(other)
SameInputs ==
    /\ enc_password = other.enc_password
    /\ enc_rounds = other.enc_rounds
    /\ private_cert = other.private_cert
EncryptSucceeded(c) ==
    /\ c.pc = "enc_returned"
    /\ c.retval = VCTOOL_STATUS_SUCCESS
    /\ c.encrypted_cert.ptr = "valid"
DecryptReturned(c) == c.pc = "dec_returned"
SaltAndIv(e) == SubBuf(e, 7, KeySize + IvSize)
PlaintextOrFailure(c) ==
    \/ /\ c.retval = VCTOOL_STATUS_SUCCESS
       /\ c.decrypted_cert.ptr = "valid"
       /\ c.decrypted_cert.data = c.private_cert
    \/ /\ c.ghost.fault # "none"
       /\ c.retval # VCTOOL_STATUS_SUCCESS
C17_Nondeterminism ==
    /\ ( /\ Both(EncryptSucceeded)
         /\ SameInputs
         /\ << ghost.salt, ghost.iv >> # << other.ghost.salt, other.ghost.iv >> )
        => /\ encrypted_cert.data # other.encrypted_cert.data
           /\ SaltAndIv(encrypted_cert.data) # SaltAndIv(other.encrypted_cert.data)
    /\ ( /\ Both(DecryptReturned)
         /\ SameInputs
         /\ encrypted_cert.data # other.encrypted_cert.data )
        => Both(PlaintextOrFailure)

\* C19: whatever the interleaving of the steps of two calls, each call returns
\* the status and the output it returns when it runs alone with the same
\* arguments, the same PRNG output and the same collaborator failure.
EnvelopeOf(w, r, p, s, iv) ==
    LET key == DeriveKey(w, s, r)
        covered ==
            ENCRYPTED_CERT_MAGIC_STRING \o Htonl(r) \o s \o iv
            \o [i \in 1..Len(p) |->
                    [kind |-> "ct", id |-> <<key, iv, i>>, v |-> p[i].v]]
    IN  covered \o [j \in 1..MacSize |->
                        [kind |-> "tag", id |-> <<key, covered, j>>, v |-> 0]]
BeforeOutput ==
    { "e_salt_init", "e_iv_init", "e_mac_buffer_init", "e_prng_init",
      "e_prng_salt", "e_prng_iv", "d_mac_buffer_init", "d_salt_init" }
      \cup CiSteps
EncryptAlone(c) ==
    CASE c.ghost.fault = "none" ->
            /\ c.retval = VCTOOL_STATUS_SUCCESS
            /\ c.encrypted_cert =
                   [ptr |-> "valid",
                    data |-> EnvelopeOf(c.enc_password, c.enc_rounds,
                                        c.private_cert, c.ghost.salt,
                                        c.ghost.iv)]
      [] c.ghost.fault = "e_malloc" ->
            /\ c.retval = VCTOOL_STATUS_SUCCESS
            /\ c.encrypted_cert = NullPtr
      [] c.ghost.fault \in BeforeOutput ->
            /\ c.retval = VCCRYPT_ERROR
            /\ c.encrypted_cert = NullPtr
      [] OTHER ->
            /\ c.retval = VCCRYPT_ERROR
            /\ c.encrypted_cert = [ptr |-> "dangling", data |-> <<>>]
DecryptAlone(c) ==
    CASE c.ghost.fault = "none" ->
            /\ c.retval = VCTOOL_STATUS_SUCCESS
            /\ c.decrypted_cert = [ptr |-> "valid", data |-> c.private_cert]
      [] c.ghost.fault = "d_malloc" ->
            /\ c.retval = VCTOOL_STATUS_SUCCESS
            /\ c.decrypted_cert = NullPtr
      [] OTHER ->
            /\ c.retval = VCCRYPT_ERROR
            /\ c.decrypted_cert = NullPtr
AsAlone(c) ==
    /\ c.pc = "enc_returned" => EncryptAlone(c)
    /\ (c.pc = "dec_returned" /\ c.scenario.kind = "intact")
        => /\ DecryptAlone(c)
           /\ c.cert = c.encrypted_cert.data
C19_Independent == Both(AsAlone)
C19_Witness ==
    /\ Both(EncryptSucceeded)
    /\ ghost.preempted
    /\ other.ghost.preempted
    /\ enc_password # other.enc_password
    /\ Both(AsAlone)

\* C20: when keygen_command_func or pubkey_command_func has returned, each of
\* the password buffer and the verification buffer that readpassword
\* initialised was disposed exactly once, and at no time more than once or
\* without having been initialised; and when readpassword has returned, the
\* temporary buffer it allocated, if any, was zeroed once and then freed once.
PasswordBuffers == {"password_buffer", "verify_buffer"}
CommandEnded == cmd.name \in {"keygen", "pubkey"} /\ cmd.pc = "returned"
C20_PasswordRelease ==
    /\ \A b \in PasswordBuffers :
        /\ cmd.disposed[b] <= IF b \in cmd.inited THEN 1 ELSE 0
        /\ CommandEnded => cmd.disposed[b] = IF b \in cmd.inited THEN 1 ELSE 0
    /\ cmd.rp.pc = "returned"
        => IF cmd.rp.password_buffer = "null"
               THEN cmd.rp.zeroed = 0 /\ cmd.rp.freed = 0
               ELSE /\ cmd.rp.password_buffer = "freed"
                    /\ cmd.rp.zeroed = 1
                    /\ cmd.rp.freed = 1
                    /\ \A i \in 1..PasswordMax : cmd.rp.data[i] = 0
C20_Witness ==
    /\ cmd.name = "pubkey"
    /\ cmd.pc = "returned"
    /\ cmd.retval = VCTOOL_ERROR_CERTIFICATE_VERIFICATION
    /\ "password_buffer" \in cmd.inited
    /\ cmd.disposed["password_buffer"] = 1
    /\ cmd.rp.zeroed = 1
    /\ cmd.rp.freed = 1

\* C21: no step of certificate_encrypt or certificate_decrypt, the returning
\* step included, changes the size or the content of the plaintext
\* certificate, of the envelope or of either password the call was given, on
\* success and on every failure.
Inputs == << private_cert, enc_password, cert, dec_password >>
C21_InputsReadOnly ==
    [][(fn \in {"encrypt", "decrypt"}) => UNCHANGED Inputs]_vars
C21_Witness ==
    /\ pc = "dec_returned"
    /\ ghost.fault = "d_stream_decrypt"
    /\ Len(cert) > FixedOverhead
    /\ Len(dec_password) > 0
    /\ Len(private_cert) > 0

\* C22: a returned call of file_stat, file_open, file_close, file_read or
\* file_write invoked the method of the same name exactly once, on the
\* interface it was given, with the interface and every argument as it
\* received them, and returned the status that invocation returned, whatever
\* its value.
MethodOf(w) ==
    CASE w = "file_stat" -> "file_stat_method"
      [] w = "file_open" -> "file_open_method"
      [] w = "file_close" -> "file_close_method"
      [] w = "file_read" -> "file_read_method"
      [] w = "file_write" -> "file_write_method"
C22_PureForwarders ==
    /\ cmd.pc = "entered" => cmd.invoked = <<>>
    /\ cmd.pc = "returned" =>
        /\ Len(cmd.invoked) = 1
        /\ cmd.invoked[1] = [interface |-> cmd.args[1],
                             method |-> MethodOf(cmd.wrapper),
                             args |-> cmd.args,
                             status |-> cmd.retval]
C22_Witness ==
    /\ cmd.pc = "returned"
    /\ cmd.wrapper = "file_open"
    /\ cmd.args[5] = "S_IRUSR|S_IWUSR"
    /\ cmd.retval = "NOT_A_VCTOOL_CODE"
    /\ Len(cmd.invoked) = 1

\* C23: once file_stat on keygen's output filename has returned anything but
\* VCTOOL_ERROR_FILE_NO_ENTRY, keygen_command_func has returned having called
\* nothing else: no readpassword, no keypair_certificate_create, no file_open
\* and no file_write, and the key file is as it was.
CmdInvoked(e) == \E i \in 1..Len(cmd.trace) : cmd.trace[i] = e
C23_NeverClobbers ==
    (/\ cmd.name = "keygen"
     /\ cmd.stat_output \notin {"none", VCTOOL_ERROR_FILE_NO_ENTRY})
        => /\ cmd.pc = "returned"
           /\ cmd.trace = << "file_stat" >>
           /\ ~CmdInvoked("readpassword")
           /\ ~CmdInvoked("keypair_certificate_create")
           /\ ~CmdInvoked("file_open")
           /\ ~CmdInvoked("file_write")
           /\ cmd.rp.pc = "none"
           /\ cmd.written = <<>>
           /\ cmd.keyfile = NoCommand.keyfile
C23_Witness ==
    /\ cmd.name = "keygen"
    /\ cmd.stat_output = VCTOOL_STATUS_SUCCESS
    /\ cmd.pc = "returned"
    /\ cmd.trace = << "file_stat" >>

\* C24: once file_stat has reported a key file whose mode has a setuid,
\* setgid, sticky, group or other permission bit, or lacks the owner-read bit,
\* pubkey_command_func has returned having called nothing after that
\* file_stat: it opened no file (neither the key file nor the output file),
\* read nothing and asked for no passphrase.
LooseBits ==
    { "S_ISUID", "S_ISGID", "S_ISVTX", "S_IRGRP", "S_IWGRP", "S_IXGRP",
      "S_IROTH", "S_IWOTH", "S_IXOTH" }
LooseKeyFile ==
    /\ cmd.name = "pubkey"
    /\ cmd.stat_key.status = VCTOOL_STATUS_SUCCESS
    /\ \/ cmd.stat_key.mode \cap LooseBits # {}
       \/ "S_IRUSR" \notin cmd.stat_key.mode
C24_RefusesLooseKeyFile ==
    LooseKeyFile
        => /\ cmd.pc = "returned"
           /\ cmd.trace = << "file_stat", "file_stat" >>
           /\ ~CmdInvoked("file_open")
           /\ ~CmdInvoked("file_read")
           /\ ~CmdInvoked("readpassword")
           /\ cmd.rp.pc = "none"
           /\ cmd.inited \cap {"fd", "out_fd", "cert", "password_buffer"} = {}
C24_Witness ==
    /\ LooseKeyFile
    /\ cmd.stat_key.mode = {"S_IRUSR", "S_IWUSR", "S_IRGRP"}
    /\ cmd.pc = "returned"
    /\ cmd.disposed["output_filename"] = 1

\* C25: when keygen_command_func has read a non-empty passphrase and a
\* verification passphrase that differs from it in length or in a byte, it
\* calls neither keypair_certificate_create nor certificate_encrypt nor
\* file_open nor file_write: it is about to compare the two or has returned,
\* and the key file is as it was.
PassphrasesDiffer ==
    /\ cmd.name = "keygen"
    /\ PasswordBuffers \subseteq cmd.inited
    /\ Len(cmd.data["password_buffer"]) > 0
    /\ cmd.data["password_buffer"] # cmd.data["verify_buffer"]
C25_ConfirmationGates ==
    PassphrasesDiffer
        => /\ cmd.pc \in {"k_verify_read", "returned"}
           /\ ~CmdInvoked("keypair_certificate_create")
           /\ ~CmdInvoked("certificate_encrypt")
           /\ ~CmdInvoked("file_open")
           /\ ~CmdInvoked("file_write")
           /\ pc = "idle"
           /\ cmd.inited \cap {"private_cert", "encrypted_cert", "fd"} = {}
           /\ cmd.written = <<>>
           /\ cmd.keyfile = NoCommand.keyfile
C25_Witness ==
    /\ PassphrasesDiffer
    /\ Len(cmd.data["password_buffer"]) = Len(cmd.data["verify_buffer"])
    /\ cmd.pc = "returned"
    /\ cmd.disposed["verify_buffer"] = 1

\* C26: a call of readpassword during which a signal was delivered while its
\* handlers were installed does not return a password: it returns a failure
\* status, and when that status is VCTOOL_ERROR_READPASSWORD_READ the terminal
\* attributes are the saved ones and the previous handlers are back.
Signalled == cmd.name # "none" /\ cmd.rp.pc = "returned" /\ cmd.rp.signalled
C26_SignalDuringEntry ==
    Signalled
        => /\ cmd.rp.retval # VCTOOL_STATUS_SUCCESS
           /\ cmd.rp.passbuffer \notin cmd.inited
           /\ ~cmd.handlers
           /\ cmd.rp.retval = VCTOOL_ERROR_READPASSWORD_READ
                  => cmd.tty = cmd.saved_attrs

\* C27: whenever keygen_command_func was given a non-empty passphrase, what it
\* passes to file_write is an envelope (the magic, then the length of the
\* private certificate plus the fixed overhead) and not the private
\* certificate, whatever certificate_encrypt did.
WroteWithPassphrase ==
    /\ cmd.name = "keygen"
    /\ CmdInvoked("file_write")
    /\ Len(cmd.data["password_buffer"]) > 0
C27_NeverPlaintext ==
    WroteWithPassphrase
        => /\ cmd.written # private_cert
           /\ Len(cmd.written) = Len(private_cert) + FixedOverhead
           /\ SubBuf(cmd.written, 0, ENCRYPTED_CERT_MAGIC_SIZE)
                  = ENCRYPTED_CERT_MAGIC_STRING

\* C28: keygen_command_func returns VCTOOL_STATUS_SUCCESS only if it opened
\* the output file and file_write wrote the whole certificate; in particular
\* it returns a failure status when the output file exists, when the two
\* passphrases differ and when file_write wrote fewer bytes than asked.
KeygenSucceeded ==
    /\ cmd.name = "keygen"
    /\ cmd.pc = "returned"
    /\ cmd.retval = VCTOOL_STATUS_SUCCESS
C28_SuccessOnlyWhenWritten ==
    KeygenSucceeded
        => /\ cmd.stat_output = VCTOOL_ERROR_FILE_NO_ENTRY
           /\ ~PassphrasesDiffer
           /\ "fd" \in cmd.inited
           /\ CmdInvoked("file_write")
           /\ Len(cmd.written) > 0
           /\ cmd.keyfile = [exists |-> TRUE, data |-> cmd.written]

\* C29: keygen_command_func runs only on a command line whose -R, when given,
\* is greater than zero, and every call of certificate_encrypt it makes
\* passes rounds > 0, with -R given and with -R omitted.
KeygenEncrypts == cmd.name = "keygen" /\ cmd.pc = "k_encrypt" /\ pc # "idle"
C29_RoundsPrecondition ==
    /\ cmd.name = "keygen" => (cmd.arg_R.given => cmd.arg_R.value > 0)
    /\ KeygenEncrypts => enc_rounds # U32(0)

\* C30 as stated: password_offset never exceeds password_max, no write to the
\* temporary buffer falls outside it, the loop has ended on a newline or with
\* the error flag set, and a call that appended password_max bytes returns
\* VCTOOL_ERROR_READPASSWORD_READ.
RpInLoop == cmd.rp.pc \in {"rp_loop", "rp_read"}
RpPastLoop ==
    \/ cmd.rp.pc \in {"rp_restore_termattrs", "rp_restore_handlers",
                      "rp_buffer_init"}
    \/ cmd.rp.pc = "returned" /\ cmd.rp.password_buffer # "null"
RpFull == cmd.rp.password_offset >= PasswordMax
RpBounded ==
    /\ cmd.rp.password_offset <= PasswordMax
    /\ ~cmd.rp.oob
    /\ RpPastLoop => (cmd.rp.ch = Newline \/ cmd.exit_loop_error)
    /\ RpFull => (cmd.exit_loop_error \/ cmd.rp.pc = "rp_read")
C30_Original ==
    /\ RpBounded
    /\ (cmd.rp.pc = "returned" /\ RpFull)
           => cmd.rp.retval = VCTOOL_ERROR_READPASSWORD_READ
\* C30 (amended): password_offset never exceeds password_max and no write to
\* the temporary buffer falls outside it; the read loop, once entered, ends
\* for every sequence of read() results, on a newline or with the error flag
\* set; and a call that appended password_max bytes returns
\* VCTOOL_ERROR_READPASSWORD_READ, or VCTOOL_ERROR_READPASSWORD_TCSETATTR when
\* restoring the terminal attributes failed, and never a password.
RpFullFails ==
    (cmd.rp.pc = "returned" /\ RpFull)
        => /\ cmd.rp.retval \in {VCTOOL_ERROR_READPASSWORD_READ,
                                 VCTOOL_ERROR_READPASSWORD_TCSETATTR}
           /\ cmd.rp.passbuffer \notin cmd.inited
C30_LoopBounded ==
    /\ [](RpBounded /\ RpFullFails)
    /\ RpInLoop ~> ~RpInLoop
C30_Witness ==
    /\ cmd.rp.pc = "returned"
    /\ cmd.rp.password_offset = PasswordMax
    /\ ~cmd.rp.signalled
    /\ cmd.rp.zeroed = 1
    /\ cmd.rp.retval = VCTOOL_ERROR_READPASSWORD_READ

====
